---- MODULE Spec2Model ----
(***************************************************************************)
(* Model of the Compass session stream orchestrator.                      *)
(*                                                                         *)
(*  Spec        the session registry: inbound turns, the active-process   *)
(*              table, the stored session token / working directory /     *)
(*              worktree record, the $cwd operations, subprocess events   *)
(*              (index.ts = src/unnamed/part_004, src/assistant.js,       *)
(*              src/src/handlers/stream.ts, db.ts = src/unnamed/part_001) *)
(*  StreamSpec  one turn of handleClaudeStream: the spawn, the parsed       *)
(*              events, the appendChain of calls against the chat stream,  *)
(*              the failure flag, the stop-button carrier, and the close   *)
(*              handler's finalization and final message                   *)
(*              (src/src/handlers/stream.ts)                               *)
(*  StreamLive  StreamSpec with delivery of a failed spawn's events and    *)
(*              settling of the calls against Slack                        *)
(*  LineSpec    the stdout "data" handler's line buffering: a payload of   *)
(*              bytes delivered in chunks, decoded chunk by chunk and      *)
(*              split into lines (src/src/handlers/stream.ts)              *)
(*  ParserSpec  the stdout handler's per-line dispatch: tool blocks, their  *)
(*              task cards, tool results, sub-agents, malformed lines      *)
(*              (src/src/handlers/stream.ts)                               *)
(*  TreeSpec    the per-thread git worktrees: the cwd gate, worktree setup  *)
(*              and reuse, the $cwd operations, the hourly cleanup sweep   *)
(*              (src/unnamed/part_004, src/assistant.js,                   *)
(*              src/src/lib/worktree.ts, src/unnamed/part_001)             *)
(*  GapSpec     extractGapMessages: the messages of a thread since the     *)
(*              bot's last reply (src/src/lib/thread-context.ts)           *)
(*  BlockSpec   the completion of one tool_use block: the accumulated      *)
(*              input, JSON.parse, toolTitle and what content_block_stop   *)
(*              does with the parsed input (src/src/handlers/stream.ts)    *)
(*  EnvSpec     the environment handed to the subprocess: the nesting      *)
(*              marker, the ENV_ injection, the SLACK_ variables           *)
(*              (src/src/handlers/stream.ts)                               *)
(*  FallbackSpec  a turn on the chat.update path: the throttled updates of  *)
(*              the carrier and the close handler's final call             *)
(*              (src/src/handlers/stream.ts)                               *)
(*  ReminderSpec  the reminders table and the runs of pollReminders         *)
(*              (src/unnamed/part_004, src/unnamed/part_001)               *)
(***************************************************************************)
EXTENDS Integers, Sequences, FiniteSets, TLC

\* ------------------------------------------------------------------ bounds
MaxTurns == 2
MaxCwdOps == 1
MaxBytes == 4         \* bytes written by the subprocess in LineSpec
MaxLines == 4         \* lines dispatched in one turn in ParserSpec
MaxPayloads == 4      \* payloads handed to the chat stream by the parsed events of one turn
MaxMessages == 5      \* messages in a thread in GapSpec
MaxFragments == 3     \* input_json_delta events of one tool block in BlockSpec
MaxDeltas == 3        \* text deltas of the turn in FallbackSpec
MaxTicks == 3         \* advances of the clock in FallbackSpec
MaxReminders == 2     \* rows of the reminders table in ReminderSpec
MaxPolls == 3         \* runs of pollReminders in ReminderSpec
MaxOccurrences == 2   \* times a reminder's trigger time is reached in ReminderSpec
MAX_GAP_MESSAGES == 2 \* cap on the gap: 50 in lib/thread-context.ts, scaled to the threads drawn

\* ------------------------------------------------------------- registry data
ChannelThread == "T1"       \* a thread in a channel (app_mention route)
AssistantThread == "T2"     \* an assistant (IM) thread (userMessage route)
Keys == {ChannelThread, AssistantThread}
Paths == {"/a", "/b"}
GitRepos == {"/a"}          \* the paths at which `git rev-parse --show-toplevel` succeeds
NoCwd == ""                 \* cwd TEXT DEFAULT NULL
Turns == 1..MaxTurns

Pending == [kind |-> "pending", n |-> 0]
NoToken == [kind |-> "none", n |-> 0]
Uuid(t) == [kind |-> "uuid", n |-> t]   \* randomUUID() minted by turn t
Sid(t) == [kind |-> "sid", n |-> t]     \* identifier chosen by the subprocess of turn t

NoRow == [present |-> FALSE, session_id |-> NoToken, cwd |-> NoCwd]
NoWorktree == [present |-> FALSE, worktree_path |-> "", cleaned_up |-> FALSE, idle |-> FALSE]
NoTurn == [key |-> "", pc |-> "new", isResume |-> FALSE, sessionId |-> NoToken,
           spawnCwd |-> ""]
NoArgs == [mode |-> "", id |-> NoToken, cwd |-> ""]

VARIABLES
  thread,           \* the thread this behaviour follows (table operations are keyed by thread)
  sessions,         \* sessions table: key -> row
  channelDefault,   \* channel_defaults row of Channel (its cwd, NoCwd when absent)
  worktrees,        \* worktrees table: key -> row
  activeProcesses,  \* the activeProcesses Map: key -> turn owning the registered process, 0 = no entry
  turns,            \* per turn: the locals of processMessage / userMessage / handleClaudeStream
  nextTurn,         \* number of turns that have arrived, plus one
  proc,             \* per turn: the child process ("none", "running", "spawnfail", "errored", "exited")
  sigterm,          \* per turn: the stop handler sent SIGTERM to its process
  initSeen,         \* per turn: token carried by the system/init line already parsed (NoToken before)
  spawnArgs,        \* per turn: the --resume / --session-id argument and cwd given to spawn
  notices,          \* per turn: number of "Still processing" notices posted
  cwdOps,           \* history: number of $cwd operations so far
  preChange,        \* history: per turn, its subprocess runs, has not reported its token yet, and
                    \*          the thread's cwd was changed after it was spawned
  staleToken,       \* history: the stored token was reported by a subprocess spawned before the
                    \*          latest change of the thread's cwd
  staleResume       \* history: per turn, admitted in resume mode with such a token

VARIABLES
  closePc,          \* position of the turn: "off", "spawning", "streaming" ("spawnfail" and
                    \* "errored" when the spawn failed), then the close handler's awaits
  streamer,         \* the chat stream object exists (the local `streamer` is not null)
  displayMode,      \* "none" (null), "plan" or "timeline"
  streamerActive,   \* local flag: a chained append has started
  streamFailed,     \* local flag: the turn is on the chat.update fallback path
  thinkingTaskDone, \* local flag
  appendChain,      \* payload ids of the chained appends that have not started yet
  inflight,         \* payload ids of the calls in flight against the chat stream
  activeTools,      \* name of the open tool_use block ("" when none is open)
  subAgentTasks,    \* a Task sub-agent is registered
  stopped,          \* the process was ended by SIGTERM
  nextId,           \* payloads are numbered in the order their events are parsed
  log,              \* history: ids of the calls made against the chat stream, in call order
  appendFailed,     \* history: an append against the chat stream was rejected
  lateCall,         \* history: a call was made against the chat stream after a rejected append
  finalVia,         \* how the final message was delivered
  accumulatedText,  \* the local accumulatedText ("" or the text T of the deltas so far)
  textLinks,        \* payload ids of the chained appends that carry text
  stopBtn,          \* the stop-button carrier: "none", "posting" (postMessage in flight),
                    \* "posted" (stopMsgTs set), "failed", "deleted", "deleteFailed"
  stopRequested,    \* history: the stop handler sent SIGTERM to the turn's process
  code,             \* the exit code given to the close handler: "none" before the exit,
                    \* then "zero", "nonzero" or "enoent" (the spawn failed)
  finalMessage,     \* what the turn's final message holds: the text, the stopped marker,
                    \* the generic message, and whether the call delivering it succeeded
  appended          \* history: the chat stream has accepted a chained append

registryVars == <<thread, sessions, channelDefault, worktrees, activeProcesses, turns, nextTurn,
                  proc, sigterm, initSeen, spawnArgs, notices, cwdOps, preChange, staleToken,
                  staleResume>>
streamVars == <<closePc, streamer, displayMode, streamerActive, streamFailed, thinkingTaskDone, appendChain,
                inflight, activeTools, subAgentTasks, stopped, nextId, log, appendFailed,
                lateCall, finalVia, accumulatedText, textLinks, stopBtn, stopRequested, code,
                finalMessage, appended>>
outputVars == <<accumulatedText, textLinks, stopBtn, stopRequested, code, finalMessage, appended>>
registryRest == <<thread, sessions, channelDefault, worktrees, turns, nextTurn, proc, sigterm,
                  initSeen, spawnArgs, notices, cwdOps, preChange, staleToken, staleResume>>
VARIABLES
  payload,          \* the bytes the subprocess writes to stdout
  delivered,        \* number of bytes delivered in "data" events so far
  jsonBuffer,       \* the local jsonBuffer (decoded characters)
  dispatched        \* history: the lines handed to JSON.parse, in order

lineVars == <<payload, delivered, jsonBuffer, dispatched>>

VARIABLES
  parser,           \* the handler's locals taskIdCounter, activeTools, completedTools,
                    \* subAgentTasks, and the payloads handed to safeAppend so far
  shadow,           \* history: the same locals had only the well-formed lines been dispatched
  tasks,            \* history: per allocated task id, the tool block that was given it
  parsed,           \* history: number of lines dispatched, how many of them were malformed,
                    \* and the number of payloads emitted before the latest malformed one
  exited            \* the close handler has run

parserVars == <<parser, shadow, tasks, parsed, exited>>

VARIABLES
  disk,             \* per thread: the work tree <repo>/trees/slack-<thread> and its branch on disk
                    \* (exists, and whether `git status --porcelain` has anything to report)
  stage,            \* per thread: position of its turn ("idle", "awaitStatus", "running"), how
                    \* the latest message was answered, the effective cwd the turn was admitted
                    \* with, the cwd it is spawned in, and what the worktree setup did
  sweepLog          \* history: per thread, what the latest cleanup sweep found (an entry in
                    \* activeProcesses, uncommitted changes, a failing `git status`), which
                    \* way it took, and what the step did to the record and the work tree

treeVars == <<disk, stage, sweepLog>>

VARIABLES
  resultData,       \* the local resultData: the "result" event parsed from stdout (NoResult = null)
  usageLog          \* the usage_logs table: the rows inserted, in order

usageVars == <<resultData, usageLog>>

VARIABLES
  messages,         \* the thread's messages as conversations.replies returned them
  currentMessageTs, \* ts of the mention being processed
  botUserId,        \* the bot's user id (NoUser = null: auth.test has not answered)
  gap               \* the value returned by extractGapMessages (Unset before the call)

gapVars == <<messages, currentMessageTs, botUserId, gap>>

VARIABLES
  block,            \* the activeTools entry of one tool_use block: the tool's name and the
                    \* inputJson accumulated from its deltas (NoBlock: none is open)
  completion        \* what the content_block_stop handler did for the block (NotStopped
                    \* before it ran)

blockVars == <<block, completion>>

VARIABLES
  thinkingCards     \* history: payload ids of the "Thinking" complete cards handed to the
                    \* chat stream in the turn

cardVars == <<thinkingCards>>

VARIABLES
  hostEnv,          \* process.env of the bot: variable name -> value ("" = not set)
  childEnv          \* the env object handed to spawn (Unassembled before it is built)

envVars == <<hostEnv, childEnv>>

VARIABLES
  fb,               \* a turn on the chat.update path: the clock and the handler's locals
  updates           \* history: the chat.update calls made on the carrier, in call order

fallbackVars == <<fb, updates>>

VARIABLES
  reminders,        \* the reminders table
  poller            \* the runs of pollReminders, in the order started

reminderVars == <<reminders, poller>>
vars == <<registryVars, streamVars, lineVars, parserVars, treeVars, usageVars, gapVars, blockVars, cardVars, envVars, fallbackVars, reminderVars>>

\* ---------------------------------------------------------------- db.ts
getSession(db, k) == db[k]

\* INSERT OR REPLACE instead of ON CONFLICT DO UPDATE: the row's other columns are lost
upsertSessionReplace(db, k, id) ==
  [db EXCEPT ![k] = [present |-> TRUE, session_id |-> id, cwd |-> NoCwd]]

upsertSession(db, k, id) ==
  [db EXCEPT ![k] = IF @.present THEN [@ EXCEPT !.session_id = id]
                    ELSE [present |-> TRUE, session_id |-> id, cwd |-> NoCwd]]

setCwd(db, k, cwd) ==
  [db EXCEPT ![k] = IF @.present THEN [@ EXCEPT !.cwd = cwd] ELSE @]

getWorktree(wt, k) == wt[k]

\* last_active_at left as it was
touchNothing(wt, k) == wt

touchWorktree(wt, k) ==
  [wt EXCEPT ![k] = IF @.present THEN [@ EXCEPT !.idle = FALSE] ELSE @]

upsertWorktree(wt, k, path) ==
  [wt EXCEPT ![k] = [present |-> TRUE, worktree_path |-> path, cleaned_up |-> FALSE,
                     idle |-> FALSE]]

markWorktreeCleaned(wt, k) ==
  [wt EXCEPT ![k] = IF @.present THEN [@ EXCEPT !.cleaned_up = TRUE] ELSE @]

\* lib/worktree.ts createWorktree: <repoRoot>/trees/slack-<thread>
WorktreePath(root, k) == root \o "/trees/slack-" \o k

\* ------------------------------------------------------- session lookup
\* the lookup without the test against "pending"
ResumableAnyToken(row) == row.present

Resumable(row) == row.present /\ row.session_id # NoToken /\ row.session_id # Pending

\* the locals sessionId / isResume and the sessions table after the lookup
SessionLookup(db, k, t) ==
  LET session == getSession(db, k) IN
  IF Resumable(session)
    THEN [sessionId |-> session.session_id, isResume |-> TRUE, db |-> db]
    ELSE [sessionId |-> Uuid(t), isResume |-> FALSE,
          db |-> IF ~session.present THEN upsertSession(db, k, Pending) ELSE db]

\* lib/worktree.ts detectGitRepo
detectGitRepo(cwd) == [isGit |-> cwd \in GitRepos, repoRoot |-> cwd]

\* the record written before createWorktree is tried
WorktreeSetupRecordFirst(wt, k, effectiveCwd, created) ==
  LET existingWt == getWorktree(wt, k) IN
  IF existingWt.present /\ ~existingWt.cleaned_up
    THEN [spawnCwd |-> existingWt.worktree_path, wt |-> touchWorktree(wt, k)]
    ELSE IF detectGitRepo(effectiveCwd).isGit
      THEN [spawnCwd |-> IF created THEN WorktreePath(effectiveCwd, k) ELSE effectiveCwd,
            wt |-> upsertWorktree(wt, k, WorktreePath(effectiveCwd, k))]
      ELSE [spawnCwd |-> effectiveCwd, wt |-> wt]

\* worktree setup: the spawn cwd and the worktrees table after it
\* (created: createWorktree and copyEnvFiles did not throw)
WorktreeSetup(wt, k, effectiveCwd, created) ==
  LET existingWt == getWorktree(wt, k) IN
  IF existingWt.present /\ ~existingWt.cleaned_up
    THEN [spawnCwd |-> existingWt.worktree_path, wt |-> touchWorktree(wt, k)]
    ELSE IF detectGitRepo(effectiveCwd).isGit /\ created
      THEN [spawnCwd |-> WorktreePath(effectiveCwd, k),
            wt |-> upsertWorktree(wt, k, WorktreePath(effectiveCwd, k))]
      ELSE [spawnCwd |-> effectiveCwd, wt |-> wt]

\* the guard left out
GuardRemoved(ap, k) == FALSE

\* the "already processing" guard
AlreadyProcessing(ap, k) == ap[k] # 0

\* ------------------------------------------------------------------ Init
\* a thread in which `$cwd /a` was sent earlier (row created "pending", cwd set)
Configured == [present |-> TRUE, session_id |-> Pending, cwd |-> "/a"]

\* the metrics carried by a "result" event
Results == {[num_turns |-> 1], [num_turns |-> 2]}
NoResult == [num_turns |-> 0]

\* no thread context is being extracted
NoUser == ""
Unset == <<[user |-> "", bot_id |-> "", ts |-> 0]>>
GapOff == messages = <<>> /\ currentMessageTs = 0 /\ botUserId = NoUser /\ gap = Unset

\* no tool block is being completed
NoBlock == [name |-> "", inputJson |-> "", fed |-> 0]
NotStopped ==
  [name |-> "", inputJson |-> "", parsed |-> FALSE, threw |-> FALSE, title |-> "",
   emitted |-> "none", registered |-> "none"]
BlockOff == block = NoBlock /\ completion = NotStopped

\* no environment is being assembled, no fallback turn and no reminder is followed
Unassembled == [built |-> FALSE, env |-> <<>>]
EnvOff == hostEnv = <<>> /\ childEnv = Unassembled
FallbackOff == fb = <<>> /\ updates = <<>>
ReminderOff == reminders = <<>> /\ poller = <<>>
RestOff == EnvOff /\ FallbackOff /\ ReminderOff

StreamOff ==
  /\ closePc = "off" /\ streamer = FALSE /\ displayMode = "none" /\ streamerActive = FALSE /\ streamFailed = FALSE
  /\ thinkingTaskDone = FALSE /\ appendChain = <<>> /\ inflight = {} /\ activeTools = ""
  /\ subAgentTasks = FALSE /\ stopped = FALSE /\ nextId = 1 /\ log = <<>>
  /\ appendFailed = FALSE /\ lateCall = FALSE /\ finalVia = "none"
  /\ accumulatedText = "" /\ textLinks = {} /\ stopBtn = "none" /\ stopRequested = FALSE
  /\ code = "none" /\ appended = FALSE
  /\ finalMessage = [text |-> "", marker |-> FALSE, generic |-> "", shown |-> FALSE]
  /\ resultData = NoResult /\ usageLog = <<>> /\ thinkingCards = {}

RegistryInit(threads, rows) ==
  /\ thread \in threads
  /\ \E row \in rows : sessions = [k \in Keys |-> IF k = thread THEN row ELSE NoRow]
  /\ channelDefault = NoCwd
  /\ worktrees = [k \in Keys |-> NoWorktree]
  /\ activeProcesses = [k \in Keys |-> 0]
  /\ turns = [t \in Turns |-> NoTurn]
  /\ nextTurn = 1
  /\ proc = [t \in Turns |-> "none"]
  /\ sigterm = [t \in Turns |-> FALSE]
  /\ initSeen = [t \in Turns |-> NoToken]
  /\ spawnArgs = [t \in Turns |-> NoArgs]
  /\ notices = [t \in Turns |-> 0]
  /\ cwdOps = 0
  /\ preChange = [t \in Turns |-> FALSE]
  /\ staleToken = FALSE
  /\ staleResume = [t \in Turns |-> FALSE]

LineOff == payload = <<>> /\ delivered = 0 /\ jsonBuffer = <<>> /\ dispatched = <<>>

\* the dispatch locals at the start of a turn
Indexes == {0, 1}                                   \* content block indexes
ToolUseIds == {[toolu |-> n] : n \in 1..MaxLines}   \* tool_use ids chosen by the subprocess
NoTool == [name |-> "", inputJson |-> <<>>, taskId |-> 0, toolUseId |-> [toolu |-> 0]]
NoEntry == [taskId |-> 0, name |-> "", title |-> <<>>]
NewParser ==
  [displayMode |-> "", thinkingTaskDone |-> FALSE, taskIdCounter |-> 0,
   activeTools |-> [i \in Indexes |-> NoTool],
   completedTools |-> [u \in ToolUseIds |-> NoEntry],
   subAgentTasks |-> [u \in ToolUseIds |-> NoEntry],
   accumulatedText |-> "",
   emitted |-> <<>>]

\* no turn's output is being dispatched
ParserOff ==
  /\ parser = <<>> /\ shadow = <<>> /\ tasks = <<>> /\ parsed = <<>> /\ exited = FALSE

\* no work tree on disk, no turn under way, no sweep yet
NoStage == [pc |-> "idle", answer |-> "none", base |-> NoCwd, spawnCwd |-> NoCwd,
            setup |-> "none"]
NoSweep == [row |-> "none", active |-> FALSE, dirty |-> FALSE, checkFailed |-> FALSE,
            marked |-> FALSE, changed |-> FALSE, gone |-> FALSE]
TreeOff ==
  /\ disk = [k \in Keys |-> [exists |-> FALSE, dirty |-> FALSE]]
  /\ stage = [k \in Keys |-> NoStage]
  /\ sweepLog = [k \in Keys |-> NoSweep]

Init ==
  RegistryInit(Keys, {NoRow, Configured}) /\ StreamOff /\ LineOff /\ ParserOff /\ TreeOff /\ GapOff /\ BlockOff /\ RestOff

\* A turn's record once it has been admitted and is suspended before the spawn.
Admitted(k, look, spawnCwd, pc) ==
  [key |-> k, pc |-> pc, isResume |-> look.isResume, sessionId |-> look.sessionId,
   spawnCwd |-> spawnCwd]

Ended(k, pc) == [NoTurn EXCEPT !.key = k, !.pc = pc]

\* history: turn t has just been admitted with the lookup result `look`
NoteAdmission(t, look) ==
  staleResume' = [staleResume EXCEPT ![t] = look.isResume /\ staleToken]

history == <<cwdOps, preChange, staleToken, staleResume>>
procState == <<proc, sigterm, initSeen, spawnArgs>>

\* ------------------------------------------- processMessage (channel route)
\* app_mention with an ordinary text -> processMessage, up to `await setStatus`
\* at the head of handleClaudeStream.
ProcessMessage(t, emptyText, created) ==
  LET k == ChannelThread
      look == SessionLookup(sessions, k, t)
      currentSession == getSession(look.db, k)
      inherit == currentSession.cwd = NoCwd /\ channelDefault # NoCwd
      effectiveCwd == IF currentSession.cwd # NoCwd THEN currentSession.cwd ELSE channelDefault
      db2 == IF inherit
               THEN setCwd(IF ~currentSession.present THEN upsertSession(look.db, k, Pending)
                           ELSE look.db, k, effectiveCwd)
               ELSE look.db
      ws == WorktreeSetup(worktrees, k, effectiveCwd, created)
  IN
  /\ thread = k
  /\ t = nextTurn /\ t \in Turns
  /\ IF AlreadyProcessing(activeProcesses, k)
       THEN /\ notices' = [notices EXCEPT ![t] = @ + 1]
            /\ turns' = [turns EXCEPT ![t] = Ended(k, "rejected")]
            /\ nextTurn' = nextTurn + 1
            /\ UNCHANGED <<sessions, worktrees, staleResume>>
       ELSE IF emptyText
         THEN \* "Empty mention, ignoring": a log line only
              UNCHANGED <<sessions, worktrees, notices, turns, nextTurn, staleResume>>
         ELSE IF effectiveCwd = NoCwd
           THEN /\ sessions' = db2
                /\ turns' = [turns EXCEPT ![t] = Ended(k, "blocked")]
                /\ nextTurn' = nextTurn + 1
                /\ UNCHANGED <<worktrees, notices, staleResume>>
           ELSE /\ sessions' = db2
                /\ worktrees' = ws.wt
                /\ turns' = [turns EXCEPT ![t] = Admitted(k, look, ws.spawnCwd, "awaitStatus")]
                /\ nextTurn' = nextTurn + 1
                /\ NoteAdmission(t, look)
                /\ UNCHANGED notices
  /\ UNCHANGED <<streamVars, lineVars, parserVars, treeVars, usageVars, gapVars, blockVars, cardVars, envVars, fallbackVars, reminderVars>>
  /\ UNCHANGED <<thread, channelDefault, activeProcesses, procState, cwdOps, preChange, staleToken>>

\* ------------------------------------------- userMessage (assistant route)
\* up to `await setTitle` (a new session) or `await setStatus` (a resumed one)
UserMessage(t, created) ==
  LET k == AssistantThread
      look == SessionLookup(sessions, k, t)
      currentSession == getSession(look.db, k)
      ws == WorktreeSetup(worktrees, k, currentSession.cwd, created)
  IN
  /\ thread = k
  /\ t = nextTurn /\ t \in Turns
  /\ nextTurn' = nextTurn + 1
  /\ IF AlreadyProcessing(activeProcesses, k)
       THEN /\ notices' = [notices EXCEPT ![t] = @ + 1]
            /\ turns' = [turns EXCEPT ![t] = Ended(k, "rejected")]
            /\ UNCHANGED <<sessions, worktrees, staleResume>>
       ELSE IF currentSession.cwd = NoCwd
         THEN /\ sessions' = look.db
              /\ turns' = [turns EXCEPT ![t] = Ended(k, "blocked")]
              /\ UNCHANGED <<worktrees, notices, staleResume>>
         ELSE IF ~look.isResume
           THEN /\ sessions' = look.db
                /\ turns' = [turns EXCEPT ![t] =
                               Admitted(k, look, currentSession.cwd, "awaitTitle")]
                /\ NoteAdmission(t, look)
                /\ UNCHANGED <<worktrees, notices>>
           ELSE /\ sessions' = look.db
                /\ worktrees' = ws.wt
                /\ turns' = [turns EXCEPT ![t] = Admitted(k, look, ws.spawnCwd, "awaitStatus")]
                /\ NoteAdmission(t, look)
                /\ UNCHANGED notices
  /\ UNCHANGED <<streamVars, lineVars, parserVars, treeVars, usageVars, gapVars, blockVars, cardVars, envVars, fallbackVars, reminderVars>>
  /\ UNCHANGED <<thread, channelDefault, activeProcesses, procState, cwdOps, preChange, staleToken>>

\* userMessage resumed after `await setTitle`: worktree setup, then `await setStatus`
TitleSet(t, created) ==
  LET k == turns[t].key
      ws == WorktreeSetup(worktrees, k, turns[t].spawnCwd, created)
  IN
  /\ turns[t].pc = "awaitTitle"
  /\ worktrees' = ws.wt
  /\ turns' = [turns EXCEPT ![t].spawnCwd = ws.spawnCwd, ![t].pc = "awaitStatus"]
  /\ UNCHANGED <<streamVars, lineVars, parserVars, treeVars, usageVars, gapVars, blockVars, cardVars, envVars, fallbackVars, reminderVars>>
  /\ UNCHANGED <<thread, sessions, channelDefault, activeProcesses, nextTurn, procState, notices,
                 history>>

\* ------------------------------------------------ handleClaudeStream: spawn
SpawnMode(isResume) == IF isResume THEN "--resume" ELSE "--session-id"

\* resumed after `await setStatus`: build the arguments, spawn, register the process
\* (ok = FALSE: the binary cannot be executed, an "error" event will follow)
Spawn(t, ok) ==
  LET k == turns[t].key IN
  /\ turns[t].pc = "awaitStatus"
  /\ spawnArgs' = [spawnArgs EXCEPT ![t] = [mode |-> SpawnMode(turns[t].isResume),
                                            id |-> turns[t].sessionId,
                                            cwd |-> turns[t].spawnCwd]]
  /\ proc' = [proc EXCEPT ![t] = IF ok THEN "running" ELSE "spawnfail"]
  /\ activeProcesses' = [activeProcesses EXCEPT ![k] = t]
  /\ turns' = [turns EXCEPT ![t].pc = "streaming"]
  /\ UNCHANGED <<streamVars, lineVars, parserVars, treeVars, usageVars, gapVars, blockVars, cardVars, envVars, fallbackVars, reminderVars>>
  /\ UNCHANGED <<thread, sessions, channelDefault, worktrees, nextTurn, sigterm, initSeen, notices,
                 history>>

\* stdout handler: a system/init line carrying the subprocess's session_id
InitParsed(t) ==
  LET k == turns[t].key IN
  /\ proc[t] = "running"
  /\ initSeen[t] = NoToken
  /\ sessions' = upsertSession(sessions, k, Sid(t))
  /\ initSeen' = [initSeen EXCEPT ![t] = Sid(t)]
  /\ staleToken' = preChange[t]
  /\ preChange' = [preChange EXCEPT ![t] = FALSE]
  /\ UNCHANGED <<streamVars, lineVars, parserVars, treeVars, usageVars, gapVars, blockVars, cardVars, envVars, fallbackVars, reminderVars>>
  /\ UNCHANGED <<thread, channelDefault, worktrees, activeProcesses, turns, nextTurn, proc, sigterm,
                 spawnArgs, notices, cwdOps, staleResume>>

\* stop_claude action: SIGTERM to the registered process (no entry: only a log line)
StopClaude(k) ==
  /\ activeProcesses[k] # 0
  /\ proc[activeProcesses[k]] = "running"     \* kill() of a process that never started does nothing
  /\ ~sigterm[activeProcesses[k]]
  /\ sigterm' = [sigterm EXCEPT ![activeProcesses[k]] = TRUE]
  /\ UNCHANGED <<streamVars, lineVars, parserVars, treeVars, usageVars, gapVars, blockVars, cardVars, envVars, fallbackVars, reminderVars>>
  /\ UNCHANGED <<thread, sessions, channelDefault, worktrees, activeProcesses, turns, nextTurn, proc,
                 initSeen, spawnArgs, notices, history>>

\* proc.on("error"): the spawn failed
ProcError(t) ==
  /\ proc[t] = "spawnfail"
  /\ proc' = [proc EXCEPT ![t] = "errored"]
  /\ activeProcesses' = [activeProcesses EXCEPT ![turns[t].key] = 0]
  /\ UNCHANGED <<streamVars, lineVars, parserVars, treeVars, usageVars, gapVars, blockVars, cardVars, envVars, fallbackVars, reminderVars>>
  /\ UNCHANGED <<thread, sessions, channelDefault, worktrees, turns, nextTurn, sigterm, initSeen,
                 spawnArgs, notices, history>>

\* proc.on("close"): the process is gone, its entry is deleted, the handler's locals
\* go out of scope when the finalization has run
Close(t) ==
  /\ proc[t] \in {"running", "errored"}
  /\ proc' = [proc EXCEPT ![t] = "exited"]
  /\ activeProcesses' = [activeProcesses EXCEPT ![turns[t].key] = 0]
  /\ turns' = [turns EXCEPT ![t] = Ended(turns[t].key, "done")]
  /\ sigterm' = [sigterm EXCEPT ![t] = FALSE]
  /\ initSeen' = [initSeen EXCEPT ![t] = NoToken]
  /\ spawnArgs' = [spawnArgs EXCEPT ![t] = NoArgs]
  /\ preChange' = [preChange EXCEPT ![t] = FALSE]
  /\ staleResume' = [staleResume EXCEPT ![t] = FALSE]
  /\ UNCHANGED <<streamVars, lineVars, parserVars, treeVars, usageVars, gapVars, blockVars, cardVars, envVars, fallbackVars, reminderVars>>
  /\ UNCHANGED <<thread, sessions, channelDefault, worktrees, nextTurn, notices, cwdOps, staleToken>>

\* ------------------------------------------------------- $cwd operations
\* the block shared by the channel handlers:
\*   if (!getSession(k)) upsertSession(k, "pending"); setCwd(k, p); upsertSession(k, "pending")
SetCwdAndReset(db, k, p) ==
  upsertSession(setCwd(IF ~getSession(db, k).present THEN upsertSession(db, k, Pending) ELSE db,
                       k, p), k, Pending)

\* assistant.js $cwd <path>: if (!getSession(k)) upsertSession(k, "pending"); setCwd(k, p)
AssistantSetCwd(db, k, p) ==
  setCwd(IF ~getSession(db, k).present THEN upsertSession(db, k, Pending) ELSE db, k, p)

\* history kept by every $cwd operation on key k that leaves the table db2
CwdHistory(k, db2) ==
  /\ thread = k
  /\ cwdOps < MaxCwdOps
  /\ cwdOps' = cwdOps + 1
  /\ preChange' = [t \in Turns |->
                     preChange[t] \/ (/\ db2[k].cwd # sessions[k].cwd
                                      /\ turns[t].key = k
                                      /\ proc[t] = "running"
                                      /\ initSeen[t] = NoToken)]
  /\ staleToken' = (Resumable(db2[k]) /\ (staleToken \/ db2[k].cwd # sessions[k].cwd))
  /\ UNCHANGED staleResume

\* app_mention "$cwd <path>"
MentionCwd(p, isTopLevel) ==
  LET k == ChannelThread IN
  /\ sessions' = SetCwdAndReset(sessions, k, p)
  /\ worktrees' = markWorktreeCleaned(worktrees, k)
  /\ channelDefault' = IF isTopLevel THEN p ELSE channelDefault
  /\ CwdHistory(k, sessions')
  /\ UNCHANGED <<streamVars, lineVars, parserVars, treeVars, usageVars, gapVars, blockVars, cardVars, envVars, fallbackVars, reminderVars>>
  /\ UNCHANGED <<thread, activeProcesses, turns, nextTurn, procState, notices>>

\* cwd_pick action (sessionKey = threadTs)
CwdPick(k, p, isTopLevel) ==
  /\ sessions' = SetCwdAndReset(sessions, k, p)
  /\ worktrees' = markWorktreeCleaned(worktrees, k)
  /\ channelDefault' = IF isTopLevel /\ k = ChannelThread THEN p ELSE channelDefault
  /\ CwdHistory(k, sessions')
  /\ UNCHANGED <<streamVars, lineVars, parserVars, treeVars, usageVars, gapVars, blockVars, cardVars, envVars, fallbackVars, reminderVars>>
  /\ UNCHANGED <<thread, activeProcesses, turns, nextTurn, procState, notices>>

\* cwd_modal view submission with a path, opened from a thread (threadTs = k)
CwdModal(k, p, isTopLevel) ==
  /\ sessions' = SetCwdAndReset(sessions, k, p)
  /\ worktrees' = markWorktreeCleaned(worktrees, k)
  /\ channelDefault' = IF isTopLevel /\ k = ChannelThread THEN p ELSE channelDefault
  /\ CwdHistory(k, sessions')
  /\ UNCHANGED <<streamVars, lineVars, parserVars, treeVars, usageVars, gapVars, blockVars, cardVars, envVars, fallbackVars, reminderVars>>
  /\ UNCHANGED <<thread, activeProcesses, turns, nextTurn, procState, notices>>

\* assistant userMessage "$cwd <path>"
AssistantCwd(p) ==
  LET k == AssistantThread IN
  /\ sessions' = AssistantSetCwd(sessions, k, p)
  /\ CwdHistory(k, sessions')
  /\ UNCHANGED <<streamVars, lineVars, parserVars, treeVars, usageVars, gapVars, blockVars, cardVars, envVars, fallbackVars, reminderVars>>
  /\ UNCHANGED <<thread, worktrees, channelDefault, activeProcesses, turns, nextTurn, procState,
                 notices>>

Next ==
  \/ \E t \in Turns, e, c \in BOOLEAN : ProcessMessage(t, e, c)
  \/ \E t \in Turns, c \in BOOLEAN : UserMessage(t, c)
  \/ \E t \in Turns, c \in BOOLEAN : TitleSet(t, c)
  \/ \E t \in Turns, ok \in BOOLEAN : Spawn(t, ok)
  \/ \E t \in Turns : InitParsed(t)
  \/ \E k \in Keys : StopClaude(k)
  \/ \E t \in Turns : ProcError(t)
  \/ \E t \in Turns : Close(t)
  \/ \E p \in Paths, top \in BOOLEAN : MentionCwd(p, top)
  \/ \E k \in Keys, p \in Paths, top \in BOOLEAN : CwdPick(k, p, top)
  \/ \E k \in Keys, p \in Paths, top \in BOOLEAN : CwdModal(k, p, top)
  \/ \E p \in Paths : AssistantCwd(p)

Spec == Init /\ [][Next]_vars

\* ============================================================ claims (Spec)
Running(k) == {t \in Turns : turns[t].key = k /\ proc[t] = "running"}
Arrives(t) == t = nextTurn /\ nextTurn' = nextTurn + 1
StoredTokenUsable(k) == sessions[k].present /\ sessions[k].session_id \notin {NoToken, Pending}

\* C1: for every thread key at most one generation subprocess spawned for it is
\* running at any time.
SingleFlight == \A k \in Keys : Cardinality(Running(k)) <= 1

\* C2: while a registered subprocess of a thread has not exited, the thread's entry
\* is in the active-process table (so no turn is admitted for the thread).
EntryHeldUntilExit == \A t \in Turns : proc[t] = "running" => activeProcesses[turns[t].key] # 0

\* C3: a turn that arrives while its thread has an entry in the active-process table
\* is rejected with one "Still processing" notice and nothing else changes: no
\* subprocess, no spawn request, and the stored token, cwd and worktree record are
\* as before.
RejectionChangesNothing ==
  [][\A t \in Turns :
       (Arrives(t) /\ activeProcesses[thread] # 0) =>
          /\ turns'[t] = Ended(thread, "rejected")
          /\ notices'[t] = notices[t] + 1
          /\ sessions' = sessions /\ worktrees' = worktrees /\ channelDefault' = channelDefault
          /\ proc' = proc /\ spawnArgs' = spawnArgs /\ activeProcesses' = activeProcesses
          /\ \A u \in Turns \ {t} : turns'[u] = turns[u]]_vars

RejectedTurn ==
  \E t \in Turns : turns[t].pc = "rejected" /\ notices[t] = 1 /\ activeProcesses[turns[t].key] # 0

\* C4: no turn admitted after a change of the thread's cwd is spawned with --resume
\* and a token reported by a subprocess that was started before the change.
NoStaleResume == \A t \in Turns : ~(spawnArgs[t].mode = "--resume" /\ staleResume[t])

\* C5: every step that changes a thread's stored cwd leaves its stored token "pending".
CwdChangeResetsToken ==
  [][\A k \in Keys : sessions'[k].cwd # sessions[k].cwd => sessions'[k].session_id = Pending]_vars

\* C6: an admitted turn is in resume mode, with exactly the stored token, iff the
\* stored token exists and is not "pending"; otherwise it carries a fresh identifier,
\* the stored token is created as or remains "pending"; the spawn request is
\* --resume <token> in the first case and --session-id <fresh identifier> in the other.
AdmissionResolvesToken ==
  [][\A t \in Turns :
       /\ (Arrives(t) /\ turns'[t].pc \in {"awaitTitle", "awaitStatus"}) =>
            IF StoredTokenUsable(thread)
              THEN /\ turns'[t].isResume
                   /\ turns'[t].sessionId = sessions[thread].session_id
                   /\ sessions'[thread].session_id = sessions[thread].session_id
              ELSE /\ ~turns'[t].isResume
                   /\ turns'[t].sessionId = Uuid(t)
                   /\ sessions'[thread].present
                   /\ sessions'[thread].session_id = Pending
       /\ (turns[t].pc = "awaitStatus" /\ turns'[t].pc = "streaming") =>
            /\ spawnArgs'[t].id = turns[t].sessionId
            /\ spawnArgs'[t].mode = (IF turns[t].isResume THEN "--resume" ELSE "--session-id")
            /\ sessions' = sessions]_vars

ResumedAndFreshSpawns ==
  /\ \E t \in Turns : spawnArgs[t].mode = "--resume" /\ spawnArgs[t].id.kind = "sid"
  /\ \E t \in Turns : turns[t].pc = "done" /\ sessions[turns[t].key].session_id.kind = "sid"

\* C7: a parsed system/init line overwrites the stored token with the token it
\* carries, whatever was stored, and leaves the stored cwd as it was.
InitOverwritesToken ==
  [][\A t \in Turns :
       (initSeen[t] = NoToken /\ initSeen'[t] # NoToken) =>
          /\ sessions'[turns[t].key].session_id = initSeen'[t]
          /\ sessions'[turns[t].key].cwd = sessions[turns[t].key].cwd
          /\ sessions'[turns[t].key].present]_vars

InitOverEarlierToken ==
  \E t \in Turns : /\ initSeen[t] = Sid(t)
                    /\ spawnArgs[t].mode = "--resume"
                    /\ spawnArgs[t].id # Sid(t)
                    /\ sessions[turns[t].key] = [present |-> TRUE, session_id |-> Sid(t), cwd |-> "/a"]

\* ================================================================ StreamSpec
\* One turn of handleClaudeStream from the spawn to the end of the close handler.
\* A step is one callback (a parsed line, a settled call, the close event) together
\* with the promise reactions that run before the next callback.

\* no tool is kept from the task list
NO_HIDDEN_TOOLS == {}
HIDDEN_TOOLS == {"EnterPlanMode", "ExitPlanMode"}
ToolNames == {"Bash", "Task", "EnterPlanMode"}

\* initStreamer(mode): the locals streamer / displayMode / streamFailed after the call
\* (created = FALSE: client.chatStream threw)
initStreamer(s, dm, f, mode, created) ==
  IF s THEN [streamer |-> s, displayMode |-> dm, streamFailed |-> f]
  ELSE [streamer |-> created, displayMode |-> mode, streamFailed |-> f \/ ~created]

\* every link of the chain starts as soon as it is queued
LinkStartsAtOnce(calls) == TRUE

\* appendChain = appendChain.then(link): a link starts when all earlier links have settled
LinkMayStart(calls) == calls = {}

\* the links of chain ch that start once the callback has returned
Started(ch, calls) == IF ch # <<>> /\ LinkMayStart(calls) THEN <<Head(ch)>> ELSE <<>>
Waiting(ch, calls) == IF ch # <<>> /\ LinkMayStart(calls) THEN Tail(ch) ELSE ch

Ids(seq) == {seq[i] : i \in DOMAIN seq}
PayloadIds == 1..(MaxPayloads + 5)

\* the calls `ids` are made against the chat stream, `settled` have settled,
\* failed: an append has been rejected by now
Calls(settled, ids, failed) ==
  /\ inflight' = (inflight \ settled) \cup Ids(ids)
  /\ log' = log \o ids
  /\ appendFailed' = failed
  /\ lateCall' = (lateCall \/ (failed /\ ids # <<>>))

\* a callback that queued the payloads `queued` (in this order) returns
Queue(queued) ==
  LET ch == appendChain \o queued IN
  /\ appendChain' = Waiting(ch, inflight)
  /\ streamerActive' = (streamerActive \/ Started(ch, inflight) # <<>>)
  /\ nextId' = nextId + Len(queued)
  /\ Calls({}, Started(ch, inflight), appendFailed)

\* payload ids nextId, nextId+1, ... for the appends selected by the flags
Numbered(flags) ==
  LET n == Cardinality({i \in DOMAIN flags : flags[i]}) IN [i \in 1..n |-> nextId + i - 1]

\* ensureStopButton(): the carrier is posted unless a post was made before
ensureStopButton(btn) == IF btn = "none" THEN "posting" ELSE btn

\* activeProcesses.delete(threadTs)
EntryKept(ap, k) == ap
EntryDeleted(ap, k) == [ap EXCEPT ![k] = 0]

NothingFinal == [text |-> "", marker |-> FALSE, generic |-> "", shown |-> FALSE]
WentWrong == "Something went wrong."
NoResponse == "No response."
\* code !== 0 ? "Something went wrong." : "No response."
Generic(c) == IF c # "zero" THEN WentWrong ELSE NoResponse

\* db.ts addUsageLog: INSERT INTO usage_logs
addUsageLog(rows, k, data) == Append(rows, [session_key |-> k, num_turns |-> data.num_turns])

\* a "result" event that ended the turn's handler
ResultEventEndsTurn(data) ==
  /\ closePc = "streaming" /\ resultData = NoResult
  /\ resultData' = data
  /\ closePc' = "done"
  /\ UNCHANGED <<streamer, displayMode, streamerActive, streamFailed, thinkingTaskDone,
                 appendChain, inflight, activeTools, subAgentTasks, stopped, nextId, log,
                 appendFailed, lateCall, finalVia, outputVars, usageLog>>
  /\ UNCHANGED <<registryVars, lineVars, parserVars, treeVars, gapVars, blockVars, cardVars, envVars, fallbackVars, reminderVars>>

\* the stdout handler parses the subprocess's "result" event (its last line)
ResultEvent(data) ==
  /\ closePc = "streaming" /\ resultData = NoResult
  /\ resultData' = data
  /\ UNCHANGED <<streamVars, usageLog>>
  /\ UNCHANGED <<registryVars, lineVars, parserVars, treeVars, gapVars, blockVars, cardVars, envVars, fallbackVars, reminderVars>>

\* spawn(CLAUDE_PATH, ...) and activeProcesses.set(threadTs, proc); ok = FALSE: the
\* binary is missing or may not be executed, reported by an "error" event later
SpawnClaude(ok) ==
  /\ closePc = "spawning"
  /\ closePc' = IF ok THEN "streaming" ELSE "spawnfail"
  /\ activeProcesses' = [activeProcesses EXCEPT ![thread] = 1]
  /\ UNCHANGED <<streamer, displayMode, streamerActive, streamFailed, thinkingTaskDone,
                 appendChain, inflight, activeTools, subAgentTasks, stopped, nextId, log,
                 appendFailed, lateCall, finalVia, outputVars>>
  /\ UNCHANGED <<registryRest, lineVars, parserVars, treeVars, usageVars, gapVars, blockVars, cardVars, envVars, fallbackVars, reminderVars>>

\* proc.on("error"): the spawn failed
OnError ==
  /\ closePc = "spawnfail"
  /\ closePc' = "errored"
  /\ activeProcesses' = EntryDeleted(activeProcesses, thread)
  /\ UNCHANGED <<streamer, displayMode, streamerActive, streamFailed, thinkingTaskDone,
                 appendChain, inflight, activeTools, subAgentTasks, stopped, nextId, log,
                 appendFailed, lateCall, finalVia, outputVars>>
  /\ UNCHANGED <<registryRest, lineVars, parserVars, treeVars, usageVars, gapVars, blockVars, cardVars, envVars, fallbackVars, reminderVars>>

\* the stop_claude action: the button on the carrier is pressed while the thread
\* has an entry in activeProcesses; proc.kill("SIGTERM")
StopClicked ==
  /\ closePc = "streaming" /\ stopBtn = "posted"
  /\ AlreadyProcessing(activeProcesses, thread)
  /\ stopRequested' = TRUE
  /\ UNCHANGED <<closePc, streamer, displayMode, streamerActive, streamFailed, thinkingTaskDone,
                 appendChain, inflight, activeTools, subAgentTasks, stopped, nextId, log,
                 appendFailed, lateCall, finalVia, accumulatedText, textLinks, stopBtn, code,
                 finalMessage, appended>>
  /\ UNCHANGED <<registryVars, lineVars, parserVars, treeVars, usageVars, gapVars, blockVars, cardVars, envVars, fallbackVars, reminderVars>>

\* every block start completes the Thinking card again
thinkingResolvedAgain(done, failed) == ~failed

\* if (!thinkingTaskDone && !streamFailed): the first content block that is not a
\* thinking block resolves the Thinking indicator
thinkingResolved(done, failed) == ~done /\ ~failed

\* content_block_delta / text_delta: the text is accumulated; it is appended to the
\* chat stream by a chained link, or (fallback path) shown by chat.update on the
\* stop-button carrier, which is posted first
TextDelta(created) ==
  LET st == IF ~streamFailed THEN initStreamer(streamer, displayMode, streamFailed, "timeline", created)
            ELSE [streamer |-> streamer, displayMode |-> displayMode, streamFailed |-> streamFailed]
      markDone == thinkingResolved(thinkingTaskDone, st.streamFailed)
  IN
  /\ closePc = "streaming" /\ nextId + 1 <= MaxPayloads
  /\ streamer' = st.streamer /\ displayMode' = st.displayMode /\ streamFailed' = st.streamFailed
  /\ thinkingTaskDone' = (thinkingTaskDone \/ markDone)
  /\ Queue(Numbered(<<markDone /\ st.displayMode = "timeline", ~st.streamFailed>>))
  /\ thinkingCards' = IF markDone /\ st.displayMode = "timeline"
                        THEN thinkingCards \cup {nextId} ELSE thinkingCards
  /\ accumulatedText' = "T"
  /\ textLinks' = IF st.streamFailed THEN textLinks
                  ELSE textLinks \cup
                       {nextId + (IF markDone /\ st.displayMode = "timeline" THEN 1 ELSE 0)}
  /\ stopBtn' = IF st.streamFailed THEN ensureStopButton(stopBtn) ELSE stopBtn
  /\ UNCHANGED <<closePc, activeTools, subAgentTasks, stopped, finalVia>>
  /\ UNCHANGED <<stopRequested, code, finalMessage, appended>>
  /\ UNCHANGED <<registryVars, lineVars, parserVars, treeVars, usageVars, gapVars, blockVars, envVars, fallbackVars, reminderVars>>

\* content_block_start of a thinking block: only the status line is set
ThinkingStart ==
  /\ closePc = "streaming"
  /\ UNCHANGED <<registryVars, streamVars, lineVars, parserVars, treeVars, usageVars, gapVars,
                 blockVars, cardVars, envVars, fallbackVars, reminderVars>>

\* content_block_start of a tool_use block named `name`
ToolStart(name, created) ==
  LET plan == name = "EnterPlanMode" /\ ~streamer
      st0 == IF plan
               THEN initStreamer(streamer, displayMode, streamFailed, "plan", created)
               ELSE [streamer |-> streamer, displayMode |-> displayMode, streamFailed |-> streamFailed]
      st == IF ~st0.streamer /\ ~st0.streamFailed
              THEN initStreamer(st0.streamer, st0.displayMode, st0.streamFailed, "timeline", created)
              ELSE st0
      markDone == thinkingResolved(thinkingTaskDone, st.streamFailed)
      titled == IF plan /\ ~st0.streamFailed THEN 1 ELSE 0
  IN
  /\ closePc = "streaming" /\ activeTools = "" /\ nextId + 1 <= MaxPayloads
  /\ thinkingCards' = IF markDone /\ st.displayMode = "timeline"
                        THEN thinkingCards \cup {nextId + titled} ELSE thinkingCards
  /\ streamer' = st.streamer /\ displayMode' = st.displayMode /\ streamFailed' = st.streamFailed
  /\ thinkingTaskDone' = (thinkingTaskDone \/ markDone)
  /\ activeTools' = name
  /\ Queue(Numbered(<<plan /\ ~st0.streamFailed, markDone /\ st.displayMode = "timeline",
                      name \notin HIDDEN_TOOLS /\ ~st.streamFailed>>))
  /\ UNCHANGED <<closePc, subAgentTasks, stopped, finalVia, outputVars>>
  /\ UNCHANGED <<registryVars, lineVars, parserVars, treeVars, usageVars, gapVars, blockVars, envVars, fallbackVars, reminderVars>>

\* content_block_stop of the open tool: a Task registers a sub-agent, a hidden tool
\* shows nothing, any other tool's card is completed (safeAppend finds the streamer
\* made at the tool's start unless the turn is on the fallback path)
ToolStop ==
  /\ closePc = "streaming" /\ activeTools # "" /\ nextId <= MaxPayloads
  /\ activeTools' = ""
  /\ subAgentTasks' = (subAgentTasks \/ activeTools = "Task")
  /\ Queue(Numbered(<<activeTools \notin HIDDEN_TOOLS \cup {"Task"} /\ ~streamFailed /\ streamer>>))
  /\ UNCHANGED <<closePc, streamer, displayMode, streamFailed, thinkingTaskDone, stopped, finalVia,
                 outputVars>>
  /\ UNCHANGED <<registryVars, lineVars, parserVars, treeVars, usageVars, gapVars, blockVars, cardVars, envVars, fallbackVars, reminderVars>>

\* the call the finalization makes next: thinking card, stopped note, seal
FinalStage(from, stp) ==
  IF from = "drain" /\ ~thinkingTaskDone /\ displayMode = "timeline" THEN "finThinking"
  ELSE IF from \in {"drain", "finThinking"} /\ stp THEN "finStopped" ELSE "sealing"

\* the finalization makes its next call (the calls `settled` have settled)
EnterFinal(from, settled, failed, stp) ==
  /\ closePc' = FinalStage(from, stp)
  /\ thinkingTaskDone' = (thinkingTaskDone \/ FinalStage(from, stp) = "finThinking")
  /\ thinkingCards' = IF FinalStage(from, stp) = "finThinking"
                        THEN thinkingCards \cup {nextId} ELSE thinkingCards
  /\ nextId' = nextId + 1
  /\ appendChain' = <<>>
  /\ Calls(settled, <<nextId>>, failed)

\* proc.on("close") up to its first await that has to wait (sig: signal === "SIGTERM",
\* c: the exit code).  After a failed spawn it follows the "error" event with the
\* negative errno as its code and no signal.
OnClose(sig, c) ==
  LET queued == Numbered(<<subAgentTasks /\ ~streamFailed /\ streamer>>)
      ch == appendChain \o queued
      direct == nextId + Len(queued)
      btn == ensureStopButton(stopBtn)
  IN
  /\ \/ closePc = "streaming" /\ c \in {"zero", "nonzero"}
     \/ closePc = "errored" /\ c = "enoent" /\ ~sig
  /\ activeProcesses' = EntryDeleted(activeProcesses, thread)
  /\ stopped' = sig
  /\ code' = c
  /\ subAgentTasks' = FALSE
  /\ IF ~streamFailed /\ streamerActive
       THEN /\ finalMessage' = [NothingFinal EXCEPT !.text = accumulatedText]
            /\ UNCHANGED stopBtn
            /\ IF ch = <<>> /\ inflight = {}
                 THEN /\ EnterFinal("drain", {}, appendFailed, sig)
                      /\ UNCHANGED <<streamerActive, finalVia>>
                 ELSE /\ closePc' = "drain"
                      /\ appendChain' = Waiting(ch, inflight)
                      /\ nextId' = direct
                      /\ Calls({}, Started(ch, inflight), appendFailed)
                      /\ UNCHANGED <<streamerActive, thinkingTaskDone, finalVia, thinkingCards>>
       ELSE IF streamer /\ ~streamerActive
         THEN /\ finalMessage' = [NothingFinal EXCEPT !.marker = sig,
                                     !.generic = IF sig THEN "" ELSE Generic(c)]
              /\ UNCHANGED stopBtn
              /\ closePc' = "b2append"
              /\ appendChain' = Waiting(ch, {})
              /\ streamerActive' = (Started(ch, {}) # <<>>)
              /\ nextId' = direct + 1
              /\ Calls({}, <<direct>> \o Started(ch, {}), appendFailed)
              /\ UNCHANGED <<thinkingTaskDone, finalVia, thinkingCards>>
         ELSE /\ finalMessage' =
                   [NothingFinal EXCEPT !.text = accumulatedText, !.marker = sig,
                      !.generic = IF sig \/ accumulatedText # "" THEN "" ELSE Generic(c)]
              /\ stopBtn' = btn
              /\ closePc' = IF btn = "posting" THEN "b3button" ELSE "b3final"
              /\ UNCHANGED <<streamerActive, thinkingTaskDone, appendChain, nextId, inflight, log,
                             appendFailed, lateCall, finalVia, thinkingCards>>
  /\ usageLog' = IF resultData # NoResult THEN addUsageLog(usageLog, thread, resultData)
                  ELSE usageLog
  /\ UNCHANGED resultData
  /\ UNCHANGED <<streamer, displayMode, streamFailed, activeTools>>
  /\ UNCHANGED <<accumulatedText, textLinks, stopRequested, appended>>
  /\ UNCHANGED <<registryRest, lineVars, parserVars, treeVars, gapVars, blockVars, envVars, fallbackVars, reminderVars>>

\* a chained append settles (ok = FALSE: rejected, the .catch sets streamFailed),
\* the next link starts; the finalization waiting on the chain goes on; a text link
\* whose append was accepted ends with ensureStopButton()
LinkSettled(c, ok) ==
  LET rest == inflight \ {c}
      failed == appendFailed \/ ~ok
  IN
  /\ closePc \in {"streaming", "drain"} /\ c \in inflight
  /\ streamFailed' = (streamFailed \/ ~ok)
  /\ IF closePc = "drain" /\ appendChain = <<>> /\ rest = {}
       THEN EnterFinal("drain", {c}, failed, stopped)
       ELSE /\ appendChain' = Waiting(appendChain, rest)
            /\ Calls({c}, Started(appendChain, rest), failed)
            /\ UNCHANGED <<closePc, thinkingTaskDone, nextId, thinkingCards>>
  /\ textLinks' = textLinks \ {c}
  /\ stopBtn' = IF ok /\ c \in textLinks THEN ensureStopButton(stopBtn) ELSE stopBtn
  /\ appended' = (appended \/ ok)
  /\ UNCHANGED <<streamer, displayMode, streamerActive, activeTools, subAgentTasks, stopped,
                 finalVia>>
  /\ UNCHANGED <<accumulatedText, stopRequested, code, finalMessage>>
  /\ UNCHANGED <<registryVars, lineVars, parserVars, treeVars, usageVars, gapVars, blockVars, envVars, fallbackVars, reminderVars>>

\* a finalization append settles: `.catch(() => {})`, then the next call
FinalCallSettled(ok) ==
  /\ closePc \in {"finThinking", "finStopped"}
  /\ EnterFinal(closePc, inflight, appendFailed \/ ~ok, stopped)
  /\ finalMessage' = IF closePc = "finStopped" THEN [finalMessage EXCEPT !.marker = ok]
                     ELSE finalMessage
  /\ UNCHANGED <<streamer, displayMode, streamerActive, streamFailed, activeTools, subAgentTasks,
                 stopped, finalVia>>
  /\ UNCHANGED <<accumulatedText, textLinks, stopBtn, stopRequested, code, appended>>
  /\ UNCHANGED <<registryVars, lineVars, parserVars, treeVars, usageVars, gapVars, blockVars, envVars, fallbackVars, reminderVars>>

\* streamer.stop settles (a rejection is only logged); then `if (stopMsgTs)` the
\* carrier is deleted
SealSettled(ok) ==
  /\ closePc = "sealing"
  /\ closePc' = IF stopBtn = "posted" THEN "deleting" ELSE "done"
  /\ finalVia' = "stream"
  /\ finalMessage' = [finalMessage EXCEPT !.shown = ok]
  /\ inflight' = {}
  /\ UNCHANGED <<streamer, displayMode, streamerActive, streamFailed, thinkingTaskDone,
                 appendChain, activeTools, subAgentTasks, stopped, nextId, log, appendFailed,
                 lateCall>>
  /\ UNCHANGED <<accumulatedText, textLinks, stopBtn, stopRequested, code, appended>>
  /\ UNCHANGED <<registryVars, lineVars, parserVars, treeVars, usageVars, gapVars, blockVars, cardVars, envVars, fallbackVars, reminderVars>>

\* client.chat.delete of the carrier settles (a rejection is only logged)
DeleteSettled(ok) ==
  /\ closePc = "deleting"
  /\ closePc' = "done"
  /\ stopBtn' = IF ok THEN "deleted" ELSE "deleteFailed"
  /\ UNCHANGED <<streamer, displayMode, streamerActive, streamFailed, thinkingTaskDone,
                 appendChain, inflight, activeTools, subAgentTasks, stopped, nextId, log,
                 appendFailed, lateCall, finalVia>>
  /\ UNCHANGED <<accumulatedText, textLinks, stopRequested, code, finalMessage, appended>>
  /\ UNCHANGED <<registryVars, lineVars, parserVars, treeVars, usageVars, gapVars, blockVars, cardVars, envVars, fallbackVars, reminderVars>>

\* the postMessage made by ensureStopButton settles: stopMsgTs is set, or the
\* rejection is logged; a close handler waiting for it makes its final call
StopButtonSettled(ok) ==
  /\ stopBtn = "posting"
  /\ stopBtn' = IF ok THEN "posted" ELSE "failed"
  /\ closePc' = IF closePc = "b3button" THEN "b3final" ELSE closePc
  /\ UNCHANGED <<streamer, displayMode, streamerActive, streamFailed, thinkingTaskDone,
                 appendChain, inflight, activeTools, subAgentTasks, stopped, nextId, log,
                 appendFailed, lateCall, finalVia>>
  /\ UNCHANGED <<accumulatedText, textLinks, stopRequested, code, finalMessage, appended>>
  /\ UNCHANGED <<registryVars, lineVars, parserVars, treeVars, usageVars, gapVars, blockVars, cardVars, envVars, fallbackVars, reminderVars>>

\* the final chat.update on the carrier (chat.postMessage when there is no carrier)
\* settles; a rejection is only logged
FallbackSettled(ok) ==
  /\ closePc \in {"b2post", "b3final"}
  /\ closePc' = "done"
  /\ finalVia' = IF closePc = "b3final" /\ stopBtn = "posted" THEN "chat.update"
                 ELSE "postMessage"
  /\ finalMessage' = [finalMessage EXCEPT !.shown = ok]
  /\ UNCHANGED <<streamer, displayMode, streamerActive, streamFailed, thinkingTaskDone,
                 appendChain, inflight, activeTools, subAgentTasks, stopped, nextId, log,
                 appendFailed, lateCall>>
  /\ UNCHANGED <<accumulatedText, textLinks, stopBtn, stopRequested, code, appended>>
  /\ UNCHANGED <<registryVars, lineVars, parserVars, treeVars, usageVars, gapVars, blockVars, cardVars, envVars, fallbackVars, reminderVars>>

\* the streamer was created but never used: append of the final text, then stop;
\* a rejection of either is answered by chat.postMessage
UnusedStreamerSettled(ok) ==
  /\ closePc \in {"b2append", "b2seal"}
  /\ IF ok /\ closePc = "b2append"
       THEN /\ closePc' = "b2seal"
            /\ nextId' = nextId + 1
            /\ Calls(inflight, <<nextId>>, appendFailed)
            /\ UNCHANGED <<finalVia, finalMessage>>
       ELSE /\ closePc' = IF ok THEN "done" ELSE "b2post"
            /\ finalVia' = IF ok THEN "stream" ELSE finalVia
            /\ finalMessage' = [finalMessage EXCEPT !.shown = ok]
            /\ Calls(inflight, <<>>, appendFailed \/ (~ok /\ closePc = "b2append"))
            /\ UNCHANGED nextId
  /\ UNCHANGED <<streamer, displayMode, streamerActive, streamFailed, thinkingTaskDone,
                 appendChain, activeTools, subAgentTasks, stopped>>
  /\ UNCHANGED <<accumulatedText, textLinks, stopBtn, stopRequested, code, appended>>
  /\ UNCHANGED <<registryVars, lineVars, parserVars, treeVars, usageVars, gapVars, blockVars, cardVars, envVars, fallbackVars, reminderVars>>

\* the turn at the call of spawn; streamFailed = !cachedTeamId
StreamInit ==
  /\ RegistryInit({ChannelThread}, {Configured}) /\ LineOff /\ ParserOff /\ TreeOff /\ GapOff /\ BlockOff /\ RestOff
  /\ closePc = "spawning" /\ streamer = FALSE /\ displayMode = "none" /\ streamerActive = FALSE
  /\ streamFailed \in BOOLEAN
  /\ thinkingTaskDone = FALSE /\ appendChain = <<>> /\ inflight = {} /\ activeTools = ""
  /\ subAgentTasks = FALSE /\ stopped = FALSE /\ nextId = 1 /\ log = <<>>
  /\ appendFailed = FALSE /\ lateCall = FALSE /\ finalVia = "none"
  /\ accumulatedText = "" /\ textLinks = {} /\ stopBtn = "none" /\ stopRequested = FALSE
  /\ code = "none" /\ appended = FALSE /\ finalMessage = NothingFinal
  /\ resultData = NoResult /\ usageLog = <<>> /\ thinkingCards = {}

ExitCodes == {"zero", "nonzero", "enoent"}

StreamNext ==
  \/ \E ok \in BOOLEAN : SpawnClaude(ok)
  \/ OnError
  \/ StopClicked
  \/ \E created \in BOOLEAN : TextDelta(created)
  \/ \E name \in ToolNames, created \in BOOLEAN : ToolStart(name, created)
  \/ ToolStop
  \/ ThinkingStart
  \/ \E sig \in BOOLEAN, c \in ExitCodes : OnClose(sig, c)
  \/ \E c \in PayloadIds, ok \in BOOLEAN : LinkSettled(c, ok)
  \/ \E ok \in BOOLEAN : FinalCallSettled(ok)
  \/ \E ok \in BOOLEAN : SealSettled(ok)
  \/ \E ok \in BOOLEAN : DeleteSettled(ok)
  \/ \E ok \in BOOLEAN : StopButtonSettled(ok)
  \/ \E ok \in BOOLEAN : UnusedStreamerSettled(ok)
  \/ \E ok \in BOOLEAN : FallbackSettled(ok)
  \/ \E data \in Results : ResultEvent(data)

StreamSpec == StreamInit /\ [][StreamNext]_vars

\* The runtime delivers the "error" event of a failed spawn and the "close" event
\* that follows it, and every call made against Slack settles.
StreamLive ==
  /\ StreamSpec
  /\ WF_vars(OnError)
  /\ WF_vars(OnClose(FALSE, "enoent"))
  /\ WF_vars(\E c \in PayloadIds, ok \in BOOLEAN : LinkSettled(c, ok))
  /\ WF_vars(\E ok \in BOOLEAN : FinalCallSettled(ok))
  /\ WF_vars(\E ok \in BOOLEAN : SealSettled(ok))
  /\ WF_vars(\E ok \in BOOLEAN : DeleteSettled(ok))
  /\ WF_vars(\E ok \in BOOLEAN : StopButtonSettled(ok))
  /\ WF_vars(\E ok \in BOOLEAN : UnusedStreamerSettled(ok))
  /\ WF_vars(\E ok \in BOOLEAN : FallbackSettled(ok))

\* ======================================================= claims (StreamSpec)
\* C8: once an append against the chat stream has been rejected, no further append
\* or seal call is made against it in the turn.
NoStreamCallAfterFailure == ~lateCall

\* C9: at most one call is in flight against the chat stream, and the calls are made
\* in the order in which their payloads were produced (chained appends in parse
\* order, then the finalization's appends, then the seal).
OneCallInParseOrder ==
  /\ Cardinality(inflight) <= 1
  /\ \A i, j \in DOMAIN log : i < j => log[i] < log[j]

ChainedThenFinalized ==
  /\ closePc = "done" /\ finalVia = "stream" /\ stopped
  /\ Len(log) >= 4 /\ ~appendFailed

\* C15: a turn ended by SIGTERM after text T was accumulated ends with a final
\* message holding T followed by the stopped marker, when no call against Slack
\* was rejected.
StoppedKeepsPartialText ==
  closePc = "done" /\ stopped /\ finalMessage.shown /\ ~appendFailed =>
    finalMessage.text = accumulatedText /\ finalMessage.marker

\* C16: the final message carries the stopped marker exactly when the stop
\* handler signalled the turn's process, when no call against Slack was rejected.
MarkerIffStopRequested ==
  closePc = "done" /\ finalMessage.shown /\ ~appendFailed =>
    (finalMessage.marker <=> stopRequested)

\* C17: a turn that was not stopped and accumulated no text ends with the
\* generic message chosen by the exit code as its final message.
GenericMessageWithoutText ==
  closePc = "done" /\ ~stopped /\ accumulatedText = "" /\ finalMessage.shown =>
    finalMessage.generic = Generic(code)

\* C18: a turn whose spawn failed comes to the end of its handler with the
\* thread's entry removed from activeProcesses, so that the next turn of the
\* thread passes the guard, and its final message is the generic failure message.
SpawnFailureEndsTurn ==
  /\ [](closePc \in {"errored", "b3button", "b3final", "done"} /\ code \in {"none", "enoent"}
          => ~AlreadyProcessing(activeProcesses, thread))
  /\ [](closePc = "done" /\ code = "enoent" =>
          /\ finalMessage.generic = WentWrong
          /\ finalMessage.text = "" /\ ~finalMessage.marker)
  /\ (closePc = "spawnfail" ~>
        closePc = "done" /\ code = "enoent" /\ ~AlreadyProcessing(activeProcesses, thread))

\* witness for C18: the turn of a failed spawn has ended and the generic failure
\* message was delivered
FailedSpawnReported ==
  /\ closePc = "done" /\ code = "enoent"
  /\ finalMessage.shown /\ finalMessage.generic = WentWrong
  /\ ~AlreadyProcessing(activeProcesses, thread)

\* C37: a turn that accumulated text and delivered a final message delivered one
\* that holds the accumulated text and no generic message in its place.
AccumulatedTextInFinalOutput ==
  closePc = "done" /\ accumulatedText # "" /\ finalMessage.shown =>
    finalMessage.text = accumulatedText /\ finalMessage.generic = ""

\* C19: once the output of a turn that stayed on the chat stream has been sealed
\* and its handler has finished, no stop-button carrier of the turn is left: none
\* is posted and not deleted, and none is still being posted.
NoCarrierAfterSeal ==
  closePc = "done" /\ finalVia = "stream" /\ finalMessage.shown /\ ~streamFailed =>
    stopBtn \notin {"posting", "posted"}

\* C20: on the chat stream the stop-button carrier is posted once appends have
\* completed: when every append made so far has been accepted and none is
\* pending, the carrier's post has been made.
CarrierFollowsFirstAppend ==
  closePc = "streaming" /\ appended /\ ~streamFailed /\ ~appendFailed
    /\ inflight = {} /\ appendChain = <<>>
    => stopBtn # "none"

\* the turn's finalization has not begun
NotFinalizing ==
  /\ closePc \in {"spawning", "streaming", "spawnfail", "errored"}
  /\ finalMessage = NothingFinal /\ finalVia = "none" /\ usageLog = <<>>

\* C31: the finalization of a turn (final message, seal or final update, release
\* of the entry in activeProcesses, end of the handler) begins at the close event
\* and at no other step, and runs once: a parsed "result" event changes nothing
\* but resultData and the events after it are still parsed; once the close event
\* was delivered the handler comes to its end, result event or not, and what it
\* delivered stays as it is.
FinalizedOnceAtExit ==
  /\ [](code = "none" =>
          /\ NotFinalizing
          /\ closePc = "streaming" => AlreadyProcessing(activeProcesses, thread))
  /\ [](closePc = "streaming" /\ nextId + 1 <= MaxPayloads => ENABLED TextDelta(TRUE))
  /\ [][code # "none" =>
          /\ code' = code /\ stopped' = stopped
          /\ ~AlreadyProcessing(activeProcesses', thread)
          /\ closePc' \notin {"spawning", "streaming", "spawnfail", "errored"}]_vars
  /\ [][finalVia # "none" => finalVia' = finalVia /\ finalMessage' = finalMessage]_vars
  /\ [][closePc = "done" => closePc' = "done"]_vars
  /\ (code # "none" ~> closePc = "done" /\ finalVia # "none")

\* witness for C31: a turn of a spawned process was finalized at its exit although
\* no result event had been parsed
FinalizedWithoutResult ==
  /\ closePc = "done" /\ code \in {"zero", "nonzero"} /\ resultData = NoResult
  /\ finalMessage.shown /\ accumulatedText # ""

\* C32: the display mode of a turn is set by the turn's first content block and by
\* no later one: it is set once, before any text was accumulated, and is not
\* changed afterwards; the chat stream object, once created, is the turn's only one.
DisplayModeDecidedByFirstBlock ==
  /\ [][displayMode' # displayMode => displayMode = "none" /\ accumulatedText = ""]_vars
  /\ [][streamer => streamer']_vars

\* C33: a turn that uses the chat stream in timeline mode hands it the Thinking
\* complete card exactly once, as the turn's first payload and first call, at the
\* first block start or text delta; no card exists in plan mode or off the chat
\* stream; the start of a thinking block resolves nothing and creates no stream.
ThinkingResolvedOnce ==
  /\ [](/\ Cardinality(thinkingCards) <= 1
        /\ displayMode = "timeline" /\ streamer => thinkingCards = {1} /\ thinkingTaskDone
        /\ thinkingCards # {} =>
             /\ displayMode = "timeline" /\ streamer /\ thinkingTaskDone
             /\ log # <<>> => log[1] \in thinkingCards)
  /\ [][ThinkingStart =>
          UNCHANGED <<streamer, displayMode, thinkingTaskDone, thinkingCards, log, appendChain>>]_vars

\* witness for C33: a timeline turn with a tool card and text was sealed on the
\* chat stream, the Thinking card having been its first payload
ThinkingCardLedTheTurn ==
  /\ closePc = "done" /\ finalVia = "stream" /\ displayMode = "timeline"
  /\ thinkingCards = {1} /\ Len(log) >= 4 /\ log[1] = 1 /\ accumulatedText # ""

\* ================================================================== LineSpec
\* Bytes of the subprocess's output: an ASCII character, the newline, and the two
\* bytes of a two-byte UTF-8 character.
Ascii == "a"
Newline == "\n"
Lead == "C3"
Cont == "A9"
Bytes == {Ascii, Newline, Lead, Cont}
TwoByteChar == "e'"
Replacement == "U+FFFD"

RECURSIVE WellFormed(_)
WellFormed(bs) ==
  IF bs = <<>> THEN TRUE
  ELSE IF Head(bs) = Lead THEN Len(bs) >= 2 /\ bs[2] = Cont /\ WellFormed(Tail(Tail(bs)))
  ELSE Head(bs) # Cont /\ WellFormed(Tail(bs))

\* chunk.toString(): UTF-8 decoding of one chunk on its own; a byte sequence that is
\* not a complete character within the chunk becomes U+FFFD
RECURSIVE toString(_)
toString(bs) ==
  IF bs = <<>> THEN <<>>
  ELSE IF Head(bs) = Lead /\ Len(bs) >= 2 /\ bs[2] = Cont
    THEN <<TwoByteChar>> \o toString(Tail(Tail(bs)))
  ELSE IF Head(bs) \in {Lead, Cont} THEN <<Replacement>> \o toString(Tail(bs))
  ELSE <<Head(bs)>> \o toString(Tail(bs))

\* String.prototype.split("\n"): the segments between the newlines
RECURSIVE split(_, _)
split(str, seg) ==
  IF str = <<>> THEN <<seg>>
  ELSE IF Head(str) = Newline THEN <<seg>> \o split(Tail(str), <<>>)
  ELSE split(Tail(str), Append(seg, Head(str)))

\* the lines that pass `if (!line.trim()) continue`
RECURSIVE NonBlank(_)
NonBlank(lines) ==
  IF lines = <<>> THEN <<>>
  ELSE IF Head(lines) = <<>> THEN NonBlank(Tail(lines))
  ELSE <<Head(lines)>> \o NonBlank(Tail(lines))

\* the "data" handler: jsonBuffer += chunk.toString(); lines = jsonBuffer.split("\n");
\* jsonBuffer = lines.pop(); every non-blank line is dispatched
OnData(buf, chunk) ==
  LET lines == split(buf \o toString(chunk), <<>>) IN
  [jsonBuffer |-> lines[Len(lines)], dispatched |-> NonBlank(SubSeq(lines, 1, Len(lines) - 1))]

\* a "data" event delivering the next n bytes
Data(n) ==
  LET r == OnData(jsonBuffer, SubSeq(payload, delivered + 1, delivered + n)) IN
  /\ n >= 1 /\ delivered + n <= Len(payload)
  /\ delivered' = delivered + n
  /\ jsonBuffer' = r.jsonBuffer
  /\ dispatched' = dispatched \o r.dispatched
  /\ UNCHANGED payload
  /\ UNCHANGED <<registryVars, streamVars, parserVars, treeVars, usageVars, gapVars, blockVars, cardVars, envVars, fallbackVars, reminderVars>>

LineInit ==
  /\ RegistryInit({ChannelThread}, {Configured}) /\ StreamOff /\ ParserOff /\ TreeOff /\ GapOff /\ BlockOff /\ RestOff
  /\ payload \in UNION {[1..n -> Bytes] : n \in 1..MaxBytes}
  /\ WellFormed(payload)
  /\ delivered = 0 /\ jsonBuffer = <<>> /\ dispatched = <<>>

LineNext == \E n \in 1..MaxBytes : Data(n)

LineSpec == LineInit /\ [][LineNext]_vars

\* ========================================================= claims (LineSpec)
\* C10: however the payload is cut into chunks, once it is delivered the lines
\* dispatched and the fragment carried over are those of a delivery in one chunk.
ChunkingIsInvisible ==
  delivered = Len(payload) =>
    /\ dispatched = OnData(<<>>, payload).dispatched
    /\ jsonBuffer = OnData(<<>>, payload).jsonBuffer

\* ================================================================ ParserSpec
\* One turn's stdout lines as the "data" handler dispatches them, one line per
\* step.  The display stream is taken to be healthy, so every payload handed to
\* safeAppend is recorded in parser.emitted in call order, tagged with the call
\* site that produced it.

\* fragments of the tool input {"x":1} as input_json_delta events carry them
FragA == "{\"x\":"
FragB == "1}"
Fragments == {FragA, FragB}

\* JSON.parse of a tool's accumulated input, over the texts built from Fragments
JSONparse(text) ==
  IF text = <<FragA, FragB>> THEN [ok |-> TRUE, value |-> "{x:1}"]
  ELSE [ok |-> FALSE, value |-> ""]

\* let parsedInput = {}; try { parsedInput = JSON.parse(tool.inputJson) } catch {}
ParsedInput(inputJson) ==
  IF JSONparse(inputJson).ok THEN JSONparse(inputJson).value ELSE "{}"

\* toolTitle(name, input): the card title is a function of the name and the input
toolTitle(name, input) == [name |-> name, input |-> input]

\* extractToolOutput: null ("") or a brief summary
Outputs == {"", "summary"}

\* a task_update / plan_update payload handed to safeAppend
Update(type, id, title, status, output, site) ==
  [type |-> type, id |-> id, title |-> title, status |-> status, output |-> output,
   site |-> site]
ThinkingId == 0
ThinkingCard ==
  Update("task_update", ThinkingId, toolTitle("Thinking", ""), "complete", "", "thinking")
PlanUpdate(title) == Update("plan_update", ThinkingId, toolTitle(title, ""), "", "", "plan")

\* the lines the subprocess can print
Line(type, index, name, id, frag, isError, output) ==
  [type |-> type, index |-> index, name |-> name, id |-> id, frag |-> frag,
   isError |-> isError, output |-> output]
NoId == [toolu |-> 0]
MalformedLine == Line("malformed", 0, "", NoId, "", FALSE, "")
StartLine(i, n, u) == Line("content_block_start", i, n, u, "", FALSE, "")
DeltaLine(i, f) == Line("input_json_delta", i, "", NoId, f, FALSE, "")
StopLine(i) == Line("content_block_stop", i, "", NoId, "", FALSE, "")
ResultLine(u, e, o) == Line("user", 0, "", u, "", e, o)
SubAgentLine(u) == Line("sub_agent_event", 0, "Bash", u, "", FALSE, "")
SubAgentTextLine(u) == Line("sub_agent_text", 0, "", u, "T", FALSE, "")
SubAgentMessageLine(u) == Line("sub_agent_assistant", 0, "Bash", u, "", FALSE, "")
SubAgentUserLine(u) == Line("sub_agent_user", 0, "", u, "", FALSE, "")

\* tool.inputJson += evt.delta.partial_json
InputJsonAppended(inputJson, frag) == <<frag>>
InputJsonDelta(inputJson, frag) == inputJson \o <<frag>>

\* the task id a completed tool is registered under for its later result
RegisteredLatestId(tool, counter) == counter
RegisteredTaskId(tool, counter) == tool.taskId

\* tool.name === "Task": completion is deferred to the sub-agent's result
NeverDelegating(name) == FALSE
Delegating(name) == name = "Task"

\* content_block_start of a tool_use block
BlockStart(ps, l) ==
  LET first == ps.displayMode = ""
      mode == IF ~first THEN ps.displayMode
              ELSE IF l.name = "EnterPlanMode" THEN "plan" ELSE "timeline"
      plan == IF first /\ mode = "plan" THEN <<PlanUpdate("Planning...")>> ELSE <<>>
      think == IF ~ps.thinkingTaskDone /\ mode = "timeline" THEN <<ThinkingCard>> ELSE <<>>
      taskId == ps.taskIdCounter + 1
      card == IF l.name \in HIDDEN_TOOLS THEN <<>>
              ELSE <<Update("task_update", taskId, toolTitle(l.name, "..."),
                            "in_progress", "", "start")>>
  IN [ps EXCEPT !.displayMode = mode, !.thinkingTaskDone = TRUE,
                !.taskIdCounter = taskId,
                !.activeTools[l.index] =
                   [name |-> l.name, inputJson |-> <<>>, taskId |-> taskId,
                    toolUseId |-> l.id],
                !.emitted = @ \o plan \o think \o card]

\* content_block_delta carrying input_json_delta
BlockDelta(ps, l) ==
  IF ps.activeTools[l.index] = NoTool THEN ps
  ELSE [ps EXCEPT !.activeTools[l.index].inputJson = InputJsonDelta(@, l.frag)]

\* content_block_stop
BlockStop(ps, l) ==
  LET tool == ps.activeTools[l.index]
      input == ParsedInput(tool.inputJson)
      title == toolTitle(tool.name, input)
      closed == [ps EXCEPT !.activeTools[l.index] = NoTool]
  IN IF tool = NoTool THEN ps
     ELSE IF Delegating(tool.name) THEN
       [closed EXCEPT !.subAgentTasks[tool.toolUseId] =
          [taskId |-> tool.taskId, name |-> tool.name,
           title |-> toolTitle("Sub-agent", input)]]
     ELSE IF tool.name \in HIDDEN_TOOLS THEN closed
     ELSE [closed EXCEPT
             !.emitted = Append(@, Update("task_update", tool.taskId, title,
                                          "complete", "", "stop")),
             !.completedTools[tool.toolUseId] =
                [taskId |-> RegisteredTaskId(tool, ps.taskIdCounter),
                 name |-> tool.name, title |-> title]]

\* a top-level "user" line carrying a tool result
ToolResult(ps, l) ==
  LET sub == ps.subAgentTasks[l.id]
      completed == ps.completedTools[l.id]
  IN IF sub # NoEntry THEN
       [ps EXCEPT !.emitted = Append(@, Update("task_update", sub.taskId, sub.title,
                                               "complete", l.output, "subResult")),
                  !.subAgentTasks[l.id] = NoEntry]
     ELSE IF completed # NoEntry THEN
       [ps EXCEPT !.completedTools[l.id] = NoEntry,
                  !.emitted =
                     IF l.isError \/ l.output # ""
                     THEN Append(@, Update("task_update", completed.taskId,
                                           completed.title,
                                           IF l.isError THEN "error" ELSE "complete",
                                           l.output, "result"))
                     ELSE @]
     ELSE ps

\* content_block_delta carrying text_delta, at top level
TopLevelText(ps, l) ==
  LET mode == IF ps.displayMode = "" THEN "timeline" ELSE ps.displayMode
      think == IF ~ps.thinkingTaskDone /\ mode = "timeline" THEN <<ThinkingCard>> ELSE <<>>
  IN [ps EXCEPT !.displayMode = mode, !.thinkingTaskDone = TRUE,
                !.accumulatedText = @ \o l.frag,
                !.emitted = @ \o think
                              \o <<Update("markdown_text", ThinkingId, toolTitle("", ""),
                                           "", l.frag, "text")>>]

\* a text delta carrying parent_tool_use_id: skipped while the parent is an open
\* sub-agent, dispatched as a top-level event otherwise
SubAgentTextEvent(ps, l) ==
  IF ps.subAgentTasks[l.id] # NoEntry THEN ps ELSE TopLevelText(ps, l)

\* an "assistant" line carrying parent_tool_use_id and a tool call: shown on the
\* parent's card while the parent is an open sub-agent, logged otherwise
SubAgentMessage(ps, l) ==
  LET parent == ps.subAgentTasks[l.id] IN
  IF parent # NoEntry THEN
    [ps EXCEPT !.emitted = Append(@, Update("task_update", parent.taskId, parent.title,
                                            "in_progress", "", "subMessage"))]
  ELSE ps

\* a "user" line carrying parent_tool_use_id: logged
SubAgentUserMessage(ps, l) == ps

\* a stream event carrying parent_tool_use_id: handled as a top-level event
SubAgentEventAtTopLevel(ps, l, fresh) == BlockStart(ps, StartLine(l.index, l.name, fresh))

\* a stream event carrying parent_tool_use_id: shown on the parent's card while
\* the parent is an open sub-agent, dispatched as a top-level event otherwise
SubAgentEvent(ps, l, fresh) ==
  LET parent == ps.subAgentTasks[l.id] IN
  IF parent # NoEntry THEN
    [ps EXCEPT !.emitted = Append(@, Update("task_update", parent.taskId, parent.title,
                                            "in_progress", "", "subEvent"))]
  ELSE BlockStart(ps, StartLine(l.index, l.name, fresh))

\* catch (e) { logErr(...) } around the dispatch of one line
ParseFailureResets(ps) == [NewParser EXCEPT !.emitted = ps.emitted]
ParseFailure(ps) == ps

\* the body of `for (const line of lines)` for one non-blank line
Dispatch(ps, l, fresh) ==
  CASE l.type = "malformed" -> ParseFailure(ps)
    [] l.type = "content_block_start" -> BlockStart(ps, l)
    [] l.type = "input_json_delta" -> BlockDelta(ps, l)
    [] l.type = "content_block_stop" -> BlockStop(ps, l)
    [] l.type = "user" -> ToolResult(ps, l)
    [] l.type = "sub_agent_event" -> SubAgentEvent(ps, l, fresh)
    [] l.type = "sub_agent_text" -> SubAgentTextEvent(ps, l)
    [] l.type = "sub_agent_assistant" -> SubAgentMessage(ps, l)
    [] l.type = "sub_agent_user" -> SubAgentUserMessage(ps, l)

\* the open sub-agents in insertion order (tool_use ids are issued in order)
RECURSIVE Remaining(_, _)
Remaining(table, n) ==
  IF n > MaxLines THEN <<>>
  ELSE (IF table[[toolu |-> n]] = NoEntry THEN <<>>
        ELSE <<Update("task_update", table[[toolu |-> n]].taskId,
                      table[[toolu |-> n]].title, "complete", "", "close")>>)
       \o Remaining(table, n + 1)

\* the close handler's loop over subAgentTasks, then subAgentTasks.clear()
CloseSubAgents(ps) ==
  [ps EXCEPT !.emitted = @ \o Remaining(ps.subAgentTasks, 1),
             !.subAgentTasks = [u \in ToolUseIds |-> NoEntry]]

\* history of the tool blocks: what each allocated task id was given, and how
\* many top-level results carrying its tool_use id were parsed after it stopped
Opened(l, u) ==
  [name |-> l.name, toolUseId |-> u, index |-> l.index, fed |-> <<>>,
   open |-> TRUE, stopped |-> FALSE, results |-> 0]
Record(ts, l, asStart, u) ==
  LET at(k) == ts[k].open /\ ts[k].index = l.index IN
  IF asStart THEN
    Append([k \in DOMAIN ts |-> IF at(k) THEN [ts[k] EXCEPT !.open = FALSE] ELSE ts[k]],
           Opened(l, u))
  ELSE IF l.type = "input_json_delta" THEN
    [k \in DOMAIN ts |-> IF at(k) THEN [ts[k] EXCEPT !.fed = Append(@, l.frag)] ELSE ts[k]]
  ELSE IF l.type = "content_block_stop" THEN
    [k \in DOMAIN ts |-> IF at(k) THEN [ts[k] EXCEPT !.open = FALSE, !.stopped = TRUE]
                         ELSE ts[k]]
  ELSE IF l.type = "user" THEN
    [k \in DOMAIN ts |-> IF ts[k].stopped /\ ts[k].toolUseId = l.id
                         THEN [ts[k] EXCEPT !.results = @ + 1] ELSE ts[k]]
  ELSE ts

\* one line is dispatched
ParseLine(l) ==
  LET fresh == [toolu |-> Len(tasks) + 1]
      asStart == \/ l.type = "content_block_start"
                 \/ l.type = "sub_agent_event" /\ parser.subAgentTasks[l.id] = NoEntry
  IN
  /\ ~exited /\ parsed.lines < MaxLines
  /\ l.type = "content_block_start" => l.id = fresh
  /\ parser' = Dispatch(parser, l, fresh)
  /\ shadow' = IF l.type = "malformed" THEN shadow ELSE Dispatch(shadow, l, fresh)
  /\ tasks' = Record(tasks, l, asStart, fresh)
  /\ parsed' = [lines |-> parsed.lines + 1,
                malformed |-> parsed.malformed + (IF l.type = "malformed" THEN 1 ELSE 0),
                mark |-> IF l.type = "malformed" THEN Len(parser.emitted) ELSE parsed.mark]
  /\ UNCHANGED exited
  /\ UNCHANGED <<registryVars, streamVars, lineVars, treeVars, usageVars, gapVars, blockVars, cardVars, envVars, fallbackVars, reminderVars>>

Malformed == ParseLine(MalformedLine)
ToolBlockStart(i, n, u) == ParseLine(StartLine(i, n, u))
ToolInputDelta(i, f) == ParseLine(DeltaLine(i, f))
ToolBlockStop(i) == ParseLine(StopLine(i))
TopLevelResult(u, e, o) == ParseLine(ResultLine(u, e, o))
SubAgentStream(u) == ParseLine(SubAgentLine(u))
SubAgentTextStream(u) == ParseLine(SubAgentTextLine(u))
SubAgentAssistant(u) == ParseLine(SubAgentMessageLine(u))
SubAgentUser(u) == ParseLine(SubAgentUserLine(u))

\* the subprocess exits: the close handler completes the remaining sub-agents
ParserClose ==
  /\ ~exited
  /\ exited' = TRUE
  /\ parser' = CloseSubAgents(parser)
  /\ shadow' = CloseSubAgents(shadow)
  /\ UNCHANGED <<tasks, parsed>>
  /\ UNCHANGED <<registryVars, streamVars, lineVars, treeVars, usageVars, gapVars, blockVars, cardVars, envVars, fallbackVars, reminderVars>>

ParserInit ==
  /\ RegistryInit({ChannelThread}, {Configured}) /\ StreamOff /\ LineOff /\ TreeOff /\ GapOff /\ BlockOff /\ RestOff
  /\ parser = NewParser /\ shadow = NewParser /\ tasks = <<>>
  /\ parsed = [lines |-> 0, malformed |-> 0, mark |-> 0] /\ exited = FALSE

ParserNext ==
  \/ Malformed
  \/ \E i \in Indexes, n \in ToolNames, u \in ToolUseIds : ToolBlockStart(i, n, u)
  \/ \E i \in Indexes, f \in Fragments : ToolInputDelta(i, f)
  \/ \E i \in Indexes : ToolBlockStop(i)
  \/ \E u \in ToolUseIds, e \in BOOLEAN, o \in Outputs : TopLevelResult(u, e, o)
  \/ \E u \in ToolUseIds : SubAgentStream(u)
  \/ \E u \in ToolUseIds : SubAgentTextStream(u)
  \/ \E u \in ToolUseIds : SubAgentAssistant(u)
  \/ \E u \in ToolUseIds : SubAgentUser(u)
  \/ ParserClose

ParserSpec == ParserInit /\ [][ParserNext]_vars

\* ======================================================= claims (ParserSpec)
\* C11: a line that is not valid JSON changes no parser state and emits nothing:
\* after any mix of lines the handler's locals and the payloads it has emitted
\* are those of the same lines with the malformed ones left out.
MalformedLineSkipped == parser = shadow

\* witness for C11: a malformed line was dispatched after some payloads had been
\* emitted and more payloads were emitted after it
MalformedBetweenValidLines ==
  /\ parsed.malformed >= 1
  /\ 0 < parsed.mark /\ parsed.mark < Len(parser.emitted)
  /\ \E k \in DOMAIN tasks : tasks[k].stopped

\* the positions in the emitted payloads of the task updates for task id k made
\* at a given call site
Cards(k, site) ==
  {p \in DOMAIN parser.emitted :
     /\ parser.emitted[p].type = "task_update"
     /\ parser.emitted[p].id = k
     /\ parser.emitted[p].site = site}
Visible(name) == name \notin HIDDEN_TOOLS /\ name # "Task"

ResultUpdatesExistingTask ==
  /\ parser.taskIdCounter = Len(tasks)
  /\ \A p \in DOMAIN parser.emitted :
       parser.emitted[p].type = "task_update" =>
         parser.emitted[p].id \in {ThinkingId} \cup DOMAIN tasks
  /\ \A k \in DOMAIN tasks :
       /\ Cardinality(Cards(k, "start")) <= 1
       /\ Cardinality(Cards(k, "result")) <= 1
       /\ \A p \in Cards(k, "result") :
            /\ Visible(tasks[k].name) /\ tasks[k].stopped /\ tasks[k].results >= 1
            /\ parser.emitted[p].status \in {"error", "complete"}
            /\ \E q \in Cards(k, "stop") :
                 q < p /\ parser.emitted[q].title = parser.emitted[p].title

\* witness for C13: two results bore the tool_use id of a completed tool and the
\* tool's task was marked failed
RepeatedResultForCompletedTool ==
  \E k \in DOMAIN tasks :
    /\ tasks[k].results >= 2
    /\ \E p \in Cards(k, "result") : parser.emitted[p].status = "error"

\* the complete updates made for a sub-agent's task at its result or at exit
Completions(k) == Cards(k, "subResult") \cup Cards(k, "close")

EveryTaskResolvedAtExit ==
  exited =>
    \A p \in DOMAIN parser.emitted :
      parser.emitted[p].type = "task_update" /\ parser.emitted[p].status = "in_progress" =>
        \E q \in DOMAIN parser.emitted :
          /\ p < q
          /\ parser.emitted[q].type = "task_update"
          /\ parser.emitted[q].id = parser.emitted[p].id
          /\ parser.emitted[q].status \in {"complete", "error"}

\* C34: a block of EnterPlanMode or ExitPlanMode is given a task id and is held in
\* activeTools from its start to its stop, and no task_update bearing its task
\* id is ever emitted: none at its start, none at its stop, none for a result
\* carrying its tool_use id (it is never entered in completedTools).
HiddenToolNeverShown ==
  \A k \in DOMAIN tasks :
    tasks[k].name \in {"EnterPlanMode", "ExitPlanMode"} =>
      /\ \A p \in DOMAIN parser.emitted :
           parser.emitted[p].type = "task_update" => parser.emitted[p].id # k
      /\ tasks[k].open =>
           /\ parser.activeTools[tasks[k].index].taskId = k
           /\ parser.activeTools[tasks[k].index].name = tasks[k].name
      /\ parser.completedTools[tasks[k].toolUseId] = NoEntry
      /\ parser.subAgentTasks[tasks[k].toolUseId] = NoEntry

\* witness for C34: a hidden tool's block was started and stopped and its result
\* was parsed, in a turn that also shows the card of another tool
HiddenToolResultParsed ==
  \E k, j \in DOMAIN tasks :
    /\ tasks[k].name = "EnterPlanMode" /\ tasks[k].stopped /\ tasks[k].results >= 1
    /\ tasks[j].name = "Bash" /\ Cards(j, "start") # {}

\* the sub-agent whose Task block stopped under tool_use id u is under way: no
\* top-level result bearing u has been parsed
SubTaskUnderWay(u) ==
  \E k \in DOMAIN tasks :
    tasks[k].name = "Task" /\ tasks[k].toolUseId = u /\ tasks[k].stopped /\ tasks[k].results = 0
SubTaskId(u) ==
  CHOOSE k \in DOMAIN tasks :
    tasks[k].name = "Task" /\ tasks[k].toolUseId = u /\ tasks[k].stopped /\ tasks[k].results = 0
SubAgentLines(u) ==
  {SubAgentLine(u), SubAgentTextLine(u), SubAgentMessageLine(u), SubAgentUserLine(u)}

OneUsageRecordPerTurn ==
  /\ code = "none" => usageLog = <<>>
  /\ code \in {"zero", "nonzero"} =>
       /\ Len(usageLog) = 1
       /\ usageLog[1] = [session_key |-> thread, num_turns |-> resultData.num_turns]

\* ================================================================== TreeSpec
\* The worktree of a thread over several turns: the CWD gate and the worktree
\* setup of processMessage / userMessage, the spawn and the exit of the turn's
\* subprocess, the $cwd operations, and the hourly cleanup sweep.  One thread
\* is followed (`thread`); its next message arrives once its previous turn has
\* reached the spawn.  The other thread is quiet: it has the worktree an earlier
\* turn created in /a and receives nothing, so that a sweep has two records to
\* go through.  Session tokens are left at "pending".

\* outcomes of createWorktree followed by copyEnvFiles
CreateOutcomes == {"ok", "gitFails", "copyFails"}

\* `git worktree add -b <branch> <path>` fails when the branch or the path exists
createWorktree(d, outcome) == outcome # "gitFails" /\ ~d.exists

\* the channel default used without being stored in the thread's session
CwdGateNoCopy(db, k, default) ==
  LET currentSession == getSession(db, k) IN
  IF currentSession.cwd # NoCwd
    THEN [effectiveCwd |-> currentSession.cwd, db |-> db, inherited |-> FALSE]
    ELSE [effectiveCwd |-> IF k = ChannelThread THEN default ELSE NoCwd, db |-> db,
          inherited |-> k = ChannelThread /\ default # NoCwd]

\* the CWD gate: the effective cwd and the sessions table after it.  The channel
\* route falls back on the channel default and stores it; the assistant route
\* has only the thread's own cwd.
CwdGate(db, k, default) ==
  LET currentSession == getSession(db, k) IN
  IF k = ChannelThread
    THEN IF currentSession.cwd # NoCwd
           THEN [effectiveCwd |-> currentSession.cwd, db |-> db, inherited |-> FALSE]
           ELSE IF default # NoCwd
             THEN [effectiveCwd |-> default, inherited |-> TRUE,
                   db |-> setCwd(IF ~currentSession.present THEN upsertSession(db, k, Pending)
                                 ELSE db, k, default)]
             ELSE [effectiveCwd |-> NoCwd, db |-> db, inherited |-> FALSE]
    ELSE [effectiveCwd |-> currentSession.cwd, db |-> db, inherited |-> FALSE]

\* what the worktree setup did, from the tables before and after it
SetupKind(wt, k, effectiveCwd, made) ==
  IF getWorktree(wt, k).present /\ ~getWorktree(wt, k).cleaned_up THEN "reused"
  ELSE IF ~detectGitRepo(effectiveCwd).isGit THEN "notGit"
  ELSE IF made THEN "created" ELSE "failed"

\* an inbound message with ordinary text on thread k, up to `await setStatus`
TreeMessage(k, outcome) ==
  LET look == SessionLookup(sessions, k, 1)
      gate == CwdGate(look.db, k, channelDefault)
      added == createWorktree(disk[k], outcome)
      made == added /\ outcome = "ok"
      ws == WorktreeSetup(worktrees, k, gate.effectiveCwd, made)
      kind == SetupKind(worktrees, k, gate.effectiveCwd, made)
  IN
  /\ thread = k
  /\ stage[k].pc # "awaitStatus"
  /\ IF AlreadyProcessing(activeProcesses, k)
       THEN /\ stage' = [stage EXCEPT ![k].answer = "busy"]
            /\ UNCHANGED <<sessions, worktrees, disk>>
       ELSE IF gate.effectiveCwd = NoCwd
         THEN /\ sessions' = gate.db
              /\ stage' = [stage EXCEPT ![k] = [NoStage EXCEPT !.answer = "nocwd"]]
              /\ UNCHANGED <<worktrees, disk>>
         ELSE /\ sessions' = gate.db
              /\ worktrees' = ws.wt
              /\ disk' = IF kind \in {"created", "failed"} /\ added
                           THEN [disk EXCEPT ![k] = [exists |-> TRUE, dirty |-> FALSE]]
                           ELSE disk
              /\ stage' = [stage EXCEPT ![k] =
                             [pc |-> "awaitStatus",
                              answer |-> IF gate.inherited THEN "inherited" ELSE "admitted",
                              base |-> gate.effectiveCwd, spawnCwd |-> ws.spawnCwd,
                              setup |-> kind]]
  /\ UNCHANGED <<thread, channelDefault, activeProcesses, turns, nextTurn, procState, notices,
                 history, sweepLog>>
  /\ UNCHANGED <<streamVars, lineVars, parserVars, usageVars, gapVars, blockVars, cardVars, envVars, fallbackVars, reminderVars>>

\* handleClaudeStream resumed after `await setStatus`: spawn in spawnCwd, register
TreeSpawn(k) ==
  /\ stage[k].pc = "awaitStatus"
  /\ stage' = [stage EXCEPT ![k].pc = "running"]
  /\ activeProcesses' = [activeProcesses EXCEPT ![k] = 1]
  /\ UNCHANGED <<registryRest, disk, sweepLog>>
  /\ UNCHANGED <<streamVars, lineVars, parserVars, usageVars, gapVars, blockVars, cardVars, envVars, fallbackVars, reminderVars>>

\* the subprocess edits files in its cwd (dirty) or commits them (~dirty)
TreeWork(k, dirty) ==
  /\ stage[k].pc = "running"
  /\ stage[k].spawnCwd = WorktreePath("/a", k) /\ disk[k].exists
  /\ disk' = [disk EXCEPT ![k].dirty = dirty]
  /\ UNCHANGED <<registryVars, stage, sweepLog>>
  /\ UNCHANGED <<streamVars, lineVars, parserVars, usageVars, gapVars, blockVars, cardVars, envVars, fallbackVars, reminderVars>>

\* the subprocess's "close" event: activeProcesses.delete(threadTs)
TreeClose(k) ==
  /\ stage[k].pc = "running"
  /\ stage' = [stage EXCEPT ![k] = NoStage]
  /\ activeProcesses' = [activeProcesses EXCEPT ![k] = 0]
  /\ UNCHANGED <<registryRest, disk, sweepLog>>
  /\ UNCHANGED <<streamVars, lineVars, parserVars, usageVars, gapVars, blockVars, cardVars, envVars, fallbackVars, reminderVars>>

\* ---------------------------------------------------- $cwd operations
\* app_mention "$cwd <path>"
TreeMentionCwd(p, isTopLevel) ==
  /\ thread = ChannelThread
  /\ sessions' = SetCwdAndReset(sessions, ChannelThread, p)
  /\ worktrees' = markWorktreeCleaned(worktrees, ChannelThread)
  /\ channelDefault' = IF isTopLevel THEN p ELSE channelDefault
  /\ UNCHANGED <<thread, activeProcesses, turns, nextTurn, procState, notices, history>>
  /\ UNCHANGED <<streamVars, lineVars, parserVars, treeVars, usageVars, gapVars, blockVars, cardVars, envVars, fallbackVars, reminderVars>>

\* cwd_pick action (sessionKey = threadTs)
TreeCwdPick(k, p, isTopLevel) ==
  /\ thread = k
  /\ sessions' = SetCwdAndReset(sessions, k, p)
  /\ worktrees' = markWorktreeCleaned(worktrees, k)
  /\ channelDefault' = IF isTopLevel /\ k = ChannelThread THEN p ELSE channelDefault
  /\ UNCHANGED <<thread, activeProcesses, turns, nextTurn, procState, notices, history>>
  /\ UNCHANGED <<streamVars, lineVars, parserVars, treeVars, usageVars, gapVars, blockVars, cardVars, envVars, fallbackVars, reminderVars>>

\* cwd_modal view submission with a path, opened from a thread (threadTs = k)
TreeCwdModal(k, p, isTopLevel) ==
  /\ thread = k
  /\ sessions' = SetCwdAndReset(sessions, k, p)
  /\ worktrees' = markWorktreeCleaned(worktrees, k)
  /\ channelDefault' = IF isTopLevel /\ k = ChannelThread THEN p ELSE channelDefault
  /\ UNCHANGED <<thread, activeProcesses, turns, nextTurn, procState, notices, history>>
  /\ UNCHANGED <<streamVars, lineVars, parserVars, treeVars, usageVars, gapVars, blockVars, cardVars, envVars, fallbackVars, reminderVars>>

\* assistant userMessage "$cwd <path>"
TreeAssistantCwd(p) ==
  /\ thread = AssistantThread
  /\ sessions' = AssistantSetCwd(sessions, AssistantThread, p)
  /\ UNCHANGED <<thread, channelDefault, worktrees, activeProcesses, turns, nextTurn, procState,
                 notices, history>>
  /\ UNCHANGED <<streamVars, lineVars, parserVars, treeVars, usageVars, gapVars, blockVars, cardVars, envVars, fallbackVars, reminderVars>>

\* a top-level "$cwd <path>" mention elsewhere in the channel: setChannelDefault
\* (the session it writes belongs to a thread that is not followed)
TopLevelCwd(p) ==
  /\ thread = ChannelThread
  /\ channelDefault' = p
  /\ UNCHANGED <<thread, sessions, worktrees, activeProcesses, turns, nextTurn, procState,
                 notices, history>>
  /\ UNCHANGED <<streamVars, lineVars, parserVars, treeVars, usageVars, gapVars, blockVars, cardVars, envVars, fallbackVars, reminderVars>>

\* ------------------------------------------------------- cleanup sweep
\* 24 hours go by in which no turn touches a worktree record (no turn is
\* suspended in a call to Slack that long)
DayPasses ==
  /\ \A k \in Keys : stage[k].pc # "awaitStatus"
  /\ worktrees' = [k \in Keys |-> IF worktrees[k].present
                                    THEN [worktrees[k] EXCEPT !.idle = TRUE]
                                    ELSE worktrees[k]]
  /\ UNCHANGED <<thread, sessions, channelDefault, activeProcesses, turns, nextTurn, procState,
                 notices, history>>
  /\ UNCHANGED <<streamVars, lineVars, parserVars, treeVars, usageVars, gapVars, blockVars, cardVars, envVars, fallbackVars, reminderVars>>

\* db.ts getStaleWorktrees(1440): cleaned_up = 0 AND last_active_at < now - 24 h
getStaleWorktrees(wt) == {k \in Keys : wt[k].present /\ ~wt[k].cleaned_up /\ wt[k].idle}

\* the catch clause returning false
hasUncommittedChangesLax(d, checkFails) == ~checkFails /\ d.exists /\ d.dirty

\* lib/worktree.ts hasUncommittedChanges: `git status --porcelain` in the work
\* tree; true when it reports anything, and when the command fails
hasUncommittedChanges(d, checkFails) ==
  IF checkFails \/ ~d.exists THEN TRUE ELSE d.dirty

\* the body of the sweep's loop for one stale record
SweepRow(wt, d, ap, k, checkFails, removed) ==
  IF k \notin getStaleWorktrees(wt) THEN "notStale"
  ELSE IF ap[k] # 0 THEN "active"
  ELSE IF hasUncommittedChanges(d[k], checkFails)
    THEN IF checkFails \/ ~d[k].exists THEN "unchecked" ELSE "dirty"
  ELSE IF removed THEN "removed" ELSE "failed"

\* markWorktreeCleaned outside the try block
MarkedAnyway(row) == row \in {"removed", "failed"}

\* try { removeWorktree(...); markWorktreeCleaned(...) } catch { logErr }
Marked(row) == row = "removed"

\* the setInterval callback (checkFails, removeOk: per thread, `git status`
\* fails and `git worktree remove --force` succeeds)
Sweep(checkFails, removeOk) ==
  LET row(k) == SweepRow(worktrees, disk, activeProcesses, k, checkFails[k], removeOk[k]) IN
  /\ worktrees' = [k \in Keys |-> IF Marked(row(k)) THEN markWorktreeCleaned(worktrees, k)[k]
                                  ELSE worktrees[k]]
  /\ disk' = [k \in Keys |-> IF row(k) = "removed" THEN [exists |-> FALSE, dirty |-> FALSE]
                             ELSE disk[k]]
  /\ sweepLog' = [k \in Keys |->
                    [row |-> row(k),
                     active |-> activeProcesses[k] # 0,
                     dirty |-> disk[k].exists /\ disk[k].dirty,
                     checkFailed |-> row(k) \notin {"notStale", "active"} /\ checkFails[k],
                     marked |-> worktrees'[k].cleaned_up /\ ~worktrees[k].cleaned_up,
                     changed |-> worktrees'[k] # worktrees[k] \/ disk'[k] # disk[k],
                     gone |-> ~disk'[k].exists]]
  /\ UNCHANGED <<thread, sessions, channelDefault, activeProcesses, turns, nextTurn, procState,
                 notices, history, stage>>
  /\ UNCHANGED <<streamVars, lineVars, parserVars, usageVars, gapVars, blockVars, cardVars, envVars, fallbackVars, reminderVars>>

\* the quiet thread's worktree record and work tree
QuietWorktree(k) ==
  [present |-> TRUE, worktree_path |-> WorktreePath("/a", k), cleaned_up |-> FALSE,
   idle |-> FALSE]

TreeInit ==
  /\ thread \in Keys
  /\ sessions = [k \in Keys |-> IF k = thread THEN NoRow ELSE Configured]
  /\ channelDefault = NoCwd
  /\ worktrees = [k \in Keys |-> IF k = thread THEN NoWorktree ELSE QuietWorktree(k)]
  /\ activeProcesses = [k \in Keys |-> 0]
  /\ turns = [t \in Turns |-> NoTurn] /\ nextTurn = 1
  /\ proc = [t \in Turns |-> "none"] /\ sigterm = [t \in Turns |-> FALSE]
  /\ initSeen = [t \in Turns |-> NoToken] /\ spawnArgs = [t \in Turns |-> NoArgs]
  /\ notices = [t \in Turns |-> 0] /\ cwdOps = 0
  /\ preChange = [t \in Turns |-> FALSE] /\ staleToken = FALSE
  /\ staleResume = [t \in Turns |-> FALSE]
  /\ \E dirty \in BOOLEAN :
       disk = [k \in Keys |-> IF k = thread THEN [exists |-> FALSE, dirty |-> FALSE]
                              ELSE [exists |-> TRUE, dirty |-> dirty]]
  /\ stage = [k \in Keys |-> NoStage]
  /\ sweepLog = [k \in Keys |-> NoSweep]
  /\ StreamOff /\ LineOff /\ ParserOff /\ GapOff /\ BlockOff /\ RestOff

TreeNext ==
  \/ \E k \in Keys, o \in CreateOutcomes : TreeMessage(k, o)
  \/ \E k \in Keys : TreeSpawn(k)
  \/ \E k \in Keys, d \in BOOLEAN : TreeWork(k, d)
  \/ \E k \in Keys : TreeClose(k)
  \/ \E p \in Paths, top \in BOOLEAN : TreeMentionCwd(p, top)
  \/ \E k \in Keys, p \in Paths, top \in BOOLEAN : TreeCwdPick(k, p, top)
  \/ \E k \in Keys, p \in Paths, top \in BOOLEAN : TreeCwdModal(k, p, top)
  \/ \E p \in Paths : TreeAssistantCwd(p)
  \/ \E p \in Paths : TopLevelCwd(p)
  \/ DayPasses
  \/ \E cf, ro \in [Keys -> BOOLEAN] : Sweep(cf, ro)

TreeSpec == TreeInit /\ [][TreeNext]_vars

\* ========================================================= claims (TreeSpec)
\* C21: a sweep leaves alone (neither removes nor marks cleaned-up) the work
\* tree and the record of every thread that has an entry in activeProcesses,
\* whose work tree has uncommitted changes, or whose `git status` fails.
SweepSkipsActiveAndDirty ==
  \A k \in Keys :
    (sweepLog[k].active \/ sweepLog[k].dirty \/ sweepLog[k].checkFailed)
      => ~sweepLog[k].changed /\ ~sweepLog[k].marked

\* a sweep passed over a stale record whose thread has a running subprocess and
\* over one whose `git status` failed
SweptPastActiveAndUnchecked ==
  \E k, j \in Keys :
    /\ sweepLog[k].row = "active" /\ sweepLog[k].active
    /\ sweepLog[j].row = "unchecked" /\ sweepLog[j].checkFailed

\* C22: in every sweep, a record whose removal fails keeps its record and work
\* tree as they were (not marked, nothing else written for it), every other
\* record reached is still removed and marked, and a record is marked only when
\* its own removal succeeded.
FailedRemovalSkipped ==
  \A k \in Keys :
    /\ sweepLog[k].row = "failed" => ~sweepLog[k].changed /\ ~sweepLog[k].marked
    /\ sweepLog[k].row = "removed" => sweepLog[k].marked /\ sweepLog[k].gone
    /\ sweepLog[k].marked => sweepLog[k].row = "removed" /\ sweepLog[k].gone

\* one sweep failed to remove one record and removed the other
SweepWentOnAfterFailure ==
  \E k, j \in Keys :
    /\ sweepLog[k].row = "failed" /\ ~worktrees[k].cleaned_up /\ disk[k].exists
    /\ sweepLog[j].row = "removed" /\ sweepLog[j].marked

\* the step admits a turn of thread k (the worktree setup has run)
AdmitsTurn(k) == stage'[k].pc = "awaitStatus" /\ stage[k].pc # "awaitStatus"
LiveRecord(wt, k) == wt[k].present /\ ~wt[k].cleaned_up

SpawnedForCurrentCwd ==
  \A k \in Keys :
    stage[k].pc # "idle" =>
      stage[k].spawnCwd \in {stage[k].base, WorktreePath(stage[k].base, k)}

\* C25: a turn whose worktree could not be created (`git worktree add` or the
\* copy of the env files failed) is admitted all the same, is spawned in the
\* thread's cwd itself, and leaves the thread's worktree record as it was.
FailedSetupFallsBack ==
  [][\A k \in Keys :
       (AdmitsTurn(k) /\ stage'[k].setup = "failed") =>
         /\ stage'[k].spawnCwd = stage'[k].base
         /\ stage'[k].base = sessions'[k].cwd
         /\ worktrees'[k] = worktrees[k]]_vars

\* a turn whose worktree setup failed, over a record marked cleaned-up, has
\* been spawned in the thread's cwd
SpawnedUnisolated ==
  \E k \in Keys :
    /\ stage[k].pc = "running" /\ stage[k].setup = "failed"
    /\ stage[k].spawnCwd = stage[k].base
    /\ worktrees[k].present /\ worktrees[k].cleaned_up

\* the channel default that thread k can fall back on (the assistant thread
\* lives in a direct-message channel, for which none is ever stored)
DefaultFor(k) == IF k = ChannelThread THEN channelDefault ELSE NoCwd

\* C26: a message on a thread with no cwd of its own and no channel default
\* is answered with the notice and admits no turn; a turn is admitted, and a
\* subprocess spawned, only with a cwd, which is then the cwd stored in the
\* thread's session; when the thread had none it is the channel default.
NoSpawnWithoutCwd ==
  [][\A k \in Keys :
       /\ \A o \in CreateOutcomes :
            (sessions[k].cwd = NoCwd /\ DefaultFor(k) = NoCwd
               /\ ~AlreadyProcessing(activeProcesses, k) /\ TreeMessage(k, o))
              => stage'[k].pc = "idle" /\ stage'[k].answer = "nocwd"
       /\ AdmitsTurn(k) =>
            /\ stage'[k].base # NoCwd
            /\ stage'[k].base = IF sessions[k].cwd # NoCwd THEN sessions[k].cwd
                                ELSE DefaultFor(k)
            /\ sessions'[k].cwd = stage'[k].base
            /\ stage'[k].spawnCwd \in {stage'[k].base, WorktreePath(stage'[k].base, k)}
                 \/ LiveRecord(worktrees, k)
       /\ (stage'[k].pc = "running" /\ stage[k].pc # "running") =>
            /\ sessions[k].cwd # NoCwd
            /\ stage'[k].spawnCwd = stage[k].spawnCwd /\ stage[k].spawnCwd # NoCwd]_vars

\* a turn admitted on the channel default alone has been spawned, the default
\* now stored as the thread's cwd
SpawnedOnChannelDefault ==
  \E k \in Keys :
    /\ stage[k].pc = "running" /\ stage[k].answer = "inherited"
    /\ sessions[k].cwd = stage[k].base /\ stage[k].base # NoCwd

\* =================================================================== GapSpec
\* extractGapMessages (lib/thread-context.ts) applied to a thread drawn in Init:
\* messages in the order of conversations.replies (oldest first, ts distinct),
\* written by a person, by this bot or by another bot; the current mention is a
\* person's message of the thread, or is not among the messages fetched.
NoBot == ""
Person == [user |-> "U1", bot_id |-> NoBot]
ThisBot == [user |-> "UB", bot_id |-> "B1"]
OtherBot == [user |-> "U2", bot_id |-> "B2"]
Authors == {Person, ThisBot, OtherBot}
Message(author, ts) == [user |-> author.user, bot_id |-> author.bot_id, ts |-> ts]

\* messages.filter((m) => m.ts !== currentMessageTs)
filtered(msgs, ts) == SelectSeq(msgs, LAMBDA m : m.ts # ts)

\* only the bot's own user id is tested
stopsAtOwnUser(msg, bot) == bot # NoUser /\ msg.user = bot

\* msg.bot_id || (botUserId && msg.user === botUserId)
stopsAt(msg, bot) == msg.bot_id # NoBot \/ (bot # NoUser /\ msg.user = bot)

\* the loop from i down to 0, with the gap collected so far
RECURSIVE walk(_, _, _, _)
walk(f, i, bot, acc) ==
  IF i < 1 THEN acc
  ELSE IF stopsAt(f[i], bot) THEN acc
  ELSE IF Len(acc) + 1 >= MAX_GAP_MESSAGES THEN <<f[i]>> \o acc
  ELSE walk(f, i - 1, bot, <<f[i]>> \o acc)

extractGapMessages(msgs, ts, bot) ==
  LET f == filtered(msgs, ts) IN walk(f, Len(f), bot, <<>>)

\* the call in fetchThreadContext
Extract ==
  /\ gap = Unset
  /\ gap' = extractGapMessages(messages, currentMessageTs, botUserId)
  /\ UNCHANGED <<messages, currentMessageTs, botUserId>>
  /\ UNCHANGED <<registryVars, streamVars, lineVars, parserVars, treeVars, usageVars, blockVars, cardVars, envVars, fallbackVars, reminderVars>>

GapInit ==
  /\ RegistryInit({ChannelThread}, {Configured}) /\ StreamOff /\ LineOff /\ ParserOff /\ TreeOff
  /\ BlockOff /\ RestOff
  /\ \E n \in 0..MaxMessages : \E authors \in [1..n -> Authors] :
       messages = [i \in 1..n |-> Message(authors[i], i)]
  /\ currentMessageTs \in 1..(MaxMessages + 1)
  /\ \A i \in 1..Len(messages) : messages[i].ts = currentMessageTs => messages[i].bot_id = NoBot
  /\ botUserId \in {NoUser, ThisBot.user}
  /\ gap = Unset

GapNext == Extract

GapSpec == GapInit /\ [][GapNext]_vars

\* ========================================================== claims (GapSpec)
\* index of the most recent bot-authored message, 0 when there is none
LastBot(msgs) ==
  IF \E i \in 1..Len(msgs) : msgs[i].bot_id # NoBot
    THEN CHOOSE i \in 1..Len(msgs) :
           msgs[i].bot_id # NoBot /\ \A j \in (i + 1)..Len(msgs) : msgs[j].bot_id = NoBot
    ELSE 0
\* the last n elements of a sequence
Latest(seq, n) == IF Len(seq) <= n THEN seq ELSE SubSeq(seq, Len(seq) - n + 1, Len(seq))

BlockNames == {"Bash", "Task", "AskUserQuestion", "WebFetch", "EnterPlanMode", "mcp__x"}

\* evt.delta.partial_json
InputFragments == {"{", "}", "null", "\"questions\":5", "\"description\":\"d\""}

\* a parsed input: null, or an object with the properties the handler reads
\* (questions 0 and description "" stand for an absent property)
EmptyObject == [kind |-> "object", questions |-> 0, description |-> ""]
Null == [kind |-> "null", questions |-> 0, description |-> ""]

\* JSON.parse(tool.inputJson): ok = FALSE when it throws
JSONparseText(text) ==
  CASE text = "null" -> [ok |-> TRUE, value |-> Null]
    [] text = "{}" -> [ok |-> TRUE, value |-> EmptyObject]
    [] text = "{\"questions\":5}" -> [ok |-> TRUE, value |-> [EmptyObject EXCEPT !.questions = 5]]
    [] text = "{\"description\":\"d\"}" ->
         [ok |-> TRUE, value |-> [EmptyObject EXCEPT !.description = "d"]]
    [] OTHER -> [ok |-> FALSE, value |-> EmptyObject]

\* let parsedInput = {}; try { parsedInput = JSON.parse(tool.inputJson); } catch {}
parsedInputOf(text) ==
  IF JSONparseText(text).ok THEN JSONparseText(text).value ELSE EmptyObject

\* toolTitle(toolName, toolInput): a property read on null throws inside the try
\* and the catch returns the tool's name
toolTitleText(toolName, toolInput) ==
  CASE toolName = "Bash" -> IF toolInput.kind = "null" THEN toolName ELSE "Run: "
    [] toolName = "Task" ->
         IF toolInput.kind = "null" THEN toolName
         ELSE "Sub-agent: " \o (IF toolInput.description # "" THEN toolInput.description
                                ELSE "task")
    [] toolName = "AskUserQuestion" ->
         IF toolInput.kind = "null" THEN toolName ELSE "Asking a question..."
    [] toolName = "EnterPlanMode" -> "Entering plan mode"
    [] OTHER -> toolName

\* the statements of the content_block_stop handler that read parsedInput throw
\* a TypeError: a property read on null, or for...of over a number
ReadsThrow(toolName, parsedInput) ==
  CASE toolName = "AskUserQuestion" -> parsedInput.kind = "null" \/ parsedInput.questions # 0
    [] toolName = "Task" -> parsedInput.kind = "null"
    [] toolName \in HIDDEN_TOOLS -> FALSE
    [] toolName = "WebFetch" -> parsedInput.kind = "null"
    [] OTHER -> FALSE

\* content_block_stop for the block: what was emitted and registered before the
\* handler returned or threw into the catch around the line
Completed(tool) ==
  LET parsedInput == parsedInputOf(tool.inputJson)
      threw == ReadsThrow(tool.name, parsedInput)
      shown == ~threw /\ tool.name \notin HIDDEN_TOOLS \cup {"Task"}
  IN [name |-> tool.name, inputJson |-> tool.inputJson, parsed |-> TRUE, threw |-> threw,
      title |-> toolTitleText(tool.name, parsedInput),
      emitted |-> IF shown THEN "complete" ELSE "none",
      registered |-> IF threw THEN "none"
                     ELSE IF tool.name = "Task" THEN "subAgentTasks"
                     ELSE IF shown /\ tool.name # "AskUserQuestion" THEN "completedTools"
                     ELSE "none"]

\* content_block_start of a tool_use block
OpenBlock(n) ==
  /\ block = NoBlock /\ completion = NotStopped
  /\ block' = [name |-> n, inputJson |-> "", fed |-> 0]
  /\ UNCHANGED completion
  /\ UNCHANGED <<registryVars, streamVars, lineVars, parserVars, treeVars, usageVars, gapVars, cardVars, envVars, fallbackVars, reminderVars>>

\* content_block_delta carrying input_json_delta
FeedBlock(f) ==
  /\ block # NoBlock /\ block.fed < MaxFragments
  /\ block' = [block EXCEPT !.inputJson = @ \o f, !.fed = @ + 1]
  /\ UNCHANGED completion
  /\ UNCHANGED <<registryVars, streamVars, lineVars, parserVars, treeVars, usageVars, gapVars, cardVars, envVars, fallbackVars, reminderVars>>

\* content_block_stop
StopBlock ==
  /\ block # NoBlock
  /\ block' = NoBlock
  /\ completion' = Completed(block)
  /\ UNCHANGED <<registryVars, streamVars, lineVars, parserVars, treeVars, usageVars, gapVars, cardVars, envVars, fallbackVars, reminderVars>>

BlockInit ==
  /\ RegistryInit({ChannelThread}, {Configured}) /\ StreamOff /\ LineOff /\ ParserOff /\ TreeOff
  /\ GapOff /\ BlockOff /\ RestOff

BlockNext ==
  \/ \E n \in BlockNames : OpenBlock(n)
  \/ \E f \in InputFragments : FeedBlock(f)
  \/ StopBlock

BlockSpec == BlockInit /\ [][BlockNext]_vars

\* what holds of every completion: input that JSON.parse rejects is read as {},
\* and the title is the tool's name for an unknown tool or a null input
FallbackAndTitle ==
  completion.parsed =>
    /\ ~JSONparseText(completion.inputJson).ok
          => completion.title = toolTitleText(completion.name, EmptyObject)
    /\ completion.name = "mcp__x" \/ JSONparseText(completion.inputJson).value = Null
          => completion.title = IF completion.name = "EnterPlanMode" THEN "Entering plan mode"
                                 ELSE completion.name

\* C29: the completion of a tool block never fails on the block's input: whatever
\* was accumulated, content_block_stop runs to its end (no statement reading the
\* parsed input throws), input that is not valid JSON is read as {}, and the
\* title is the tool's name for an unknown tool or an input that cannot be read.
ToolBlockCompletionNeverFails ==
  completion.parsed => ~completion.threw /\ FallbackAndTitle

\* ==================================================================== EnvSpec
\* The environment handed to spawn, assembled from process.env.
Marker == "CLAUDECODE"
HostNames == {Marker, "ENV_CLAUDECODE", "ENV_ENV_CLAUDECODE", "ENV_KEY", "KEY", "ENV_"}
SlackNames == {"SLACK_CHANNEL_ID", "SLACK_USER_ID"}
ChildNames == HostNames \cup SlackNames
EnvValues == {"", "1", "2"}          \* "": the variable is not set

\* key.startsWith("ENV_") && key.length > 4
Injected(key) == key \in {"ENV_CLAUDECODE", "ENV_ENV_CLAUDECODE", "ENV_KEY"}

\* key.slice(4)
slice4(key) ==
  CASE key = "ENV_CLAUDECODE" -> Marker
    [] key = "ENV_ENV_CLAUDECODE" -> "ENV_CLAUDECODE"
    [] key = "ENV_KEY" -> "KEY"
    [] key = "ENV_" -> ""
    [] OTHER -> key

\* const env = { ...process.env }; delete env.CLAUDECODE
withoutMarker(host) ==
  [n \in ChildNames |-> IF n \in HostNames /\ n # Marker THEN host[n] ELSE ""]

\* for (const [key, val] of Object.entries(process.env)) ... env[key.slice(4)] = val
withInjected(env, host) ==
  [n \in ChildNames |->
     IF \E key \in HostNames : Injected(key) /\ host[key] # "" /\ slice4(key) = n
     THEN host[CHOOSE key \in HostNames : Injected(key) /\ host[key] # "" /\ slice4(key) = n]
     ELSE env[n]]

\* env.SLACK_CHANNEL_ID = channelId; env.SLACK_USER_ID = userId
withSlack(env) == [n \in ChildNames |-> IF n \in SlackNames THEN "1" ELSE env[n]]

\* the statements from `const env` to the call of spawn
AssembleEnv ==
  /\ ~childEnv.built
  /\ childEnv' = [built |-> TRUE, env |-> withSlack(withInjected(withoutMarker(hostEnv), hostEnv))]
  /\ UNCHANGED hostEnv
  /\ UNCHANGED <<registryVars, streamVars, lineVars, parserVars, treeVars, usageVars, gapVars,
                 blockVars, cardVars, fallbackVars, reminderVars>>

EnvInit ==
  /\ RegistryInit({ChannelThread}, {Configured}) /\ StreamOff /\ LineOff /\ ParserOff /\ TreeOff
  /\ GapOff /\ BlockOff /\ FallbackOff /\ ReminderOff
  /\ hostEnv \in [HostNames -> EnvValues]
  /\ childEnv = Unassembled

EnvNext == AssembleEnv

EnvSpec == EnvInit /\ [][EnvNext]_vars

\* C35: the environment handed to the subprocess holds no CLAUDECODE variable,
\* whatever process.env holds, ENV_-prefixed variables included.
ChildEnvWithoutMarker ==
  childEnv.built => childEnv.env[Marker] = ""

\* =============================================================== FallbackSpec
\* A turn on the chat.update path from its start (no cached team id): text deltas,
\* the throttled chat.update on the stop-button carrier, the close handler's
\* fallback branch.  The clock advances in steps of half the throttle interval.
UPDATE_INTERVAL_MS == 750
TickMs == UPDATE_INTERVAL_MS \div 2

\* a chat.update made by a throttled update's .then callback
Snapshot(id, f) ==
  [id |-> id, kind |-> "snapshot", at |-> f.now, text |-> f.text, afterExit |-> f.done,
   pending |-> {}]

\* the close handler's last call: chat.update on the carrier, or chat.postMessage
\* when there is no carrier (pending: the throttled updates not yet settled)
FinalCall(f) ==
  [id |-> 0, kind |-> IF f.stopBtn = "posted" THEN "final" ELSE "finalPost", at |-> f.now,
   text |-> f.text, afterExit |-> f.done, pending |-> f.inflight \cup Ids(f.waiting)]

\* lastUpdatePromise has settled: the latest throttled update is neither waiting
\* for the carrier nor in flight
LastSettled(f) == f.last = 0 \/ (f.last \notin Ids(f.waiting) /\ f.last \notin f.inflight)

\* every throttled update has settled
AllSettled(f) == f.waiting = <<>> /\ f.inflight = {}

\* the close handler goes on as far as its awaits allow:
\*   await lastUpdatePromise; await ensureStopButton(); final chat.update / postMessage
CloseContinues(f, ups) ==
  LET f1 == IF f.pc = "awaitLast" /\ LastSettled(f)
              THEN [f EXCEPT !.pc = "awaitBtn", !.stopBtn = ensureStopButton(@)]
              ELSE f
      send == f1.pc = "awaitBtn" /\ f1.stopBtn \in {"posted", "failed"}
  IN [fb |-> IF send THEN [f1 EXCEPT !.pc = "final"] ELSE f1,
      updates |-> IF send THEN Append(ups, FinalCall(f1)) ELSE ups]

\* Date.now() has advanced
Tick ==
  /\ fb.pc # "done" /\ fb.ticks < MaxTicks
  /\ fb' = [fb EXCEPT !.now = @ + TickMs, !.ticks = @ + 1]
  /\ UNCHANGED updates
  /\ UNCHANGED <<registryVars, streamVars, lineVars, parserVars, treeVars, usageVars, gapVars,
                 blockVars, cardVars, envVars, reminderVars>>

\* text_delta with streamFailed: the text is accumulated; if the interval has
\* passed a chat.update is chained behind ensureStopButton()
FallbackDelta ==
  LET f0 == [fb EXCEPT !.text = @ + 1]
      due == ~f0.done /\ f0.now - f0.lastUpdateTime >= UPDATE_INTERVAL_MS
      id == f0.nextId
      btn == ensureStopButton(f0.stopBtn)
      f1 == IF ~due THEN f0
            ELSE [f0 EXCEPT !.lastUpdateTime = f0.now, !.nextId = id + 1, !.stopBtn = btn,
                            !.last = id,
                            !.waiting = IF btn = "posting" THEN Append(@, id) ELSE @,
                            !.inflight = IF btn = "posted" THEN @ \cup {id} ELSE @]
  IN
  /\ fb.pc = "streaming" /\ fb.text < MaxDeltas
  /\ fb' = f1
  /\ updates' = IF due /\ btn = "posted" THEN Append(updates, Snapshot(id, f1)) ELSE updates
  /\ UNCHANGED <<registryVars, streamVars, lineVars, parserVars, treeVars, usageVars, gapVars,
                 blockVars, cardVars, envVars, reminderVars>>

\* the carrier's postMessage settles: stopMsgTs is set or the rejection is logged;
\* the .then callbacks chained behind it run in order, each making its chat.update
\* `if (stopMsgTs)`
CarrierSettled(ok) ==
  LET f1 == [fb EXCEPT !.stopBtn = IF ok THEN "posted" ELSE "failed",
                       !.waiting = <<>>,
                       !.inflight = IF ok THEN @ \cup Ids(fb.waiting) ELSE @]
      ups == IF ok THEN updates \o [i \in 1..Len(fb.waiting) |-> Snapshot(fb.waiting[i], fb)]
             ELSE updates
  IN
  /\ fb.pc # "done" /\ fb.stopBtn = "posting"
  /\ fb' = CloseContinues(f1, ups).fb
  /\ updates' = CloseContinues(f1, ups).updates
  /\ UNCHANGED <<registryVars, streamVars, lineVars, parserVars, treeVars, usageVars, gapVars,
                 blockVars, cardVars, envVars, reminderVars>>

\* a throttled chat.update settles (a rejection is only logged)
SnapshotSettled(id) ==
  LET f1 == [fb EXCEPT !.inflight = @ \ {id}] IN
  /\ fb.pc # "done" /\ id \in fb.inflight
  /\ fb' = CloseContinues(f1, updates).fb
  /\ updates' = CloseContinues(f1, updates).updates
  /\ UNCHANGED <<registryVars, streamVars, lineVars, parserVars, treeVars, usageVars, gapVars,
                 blockVars, cardVars, envVars, reminderVars>>

\* proc.on("close"): done = true, then the fallback branch
FallbackClose ==
  LET f1 == [fb EXCEPT !.done = TRUE, !.pc = "awaitLast"] IN
  /\ fb.pc = "streaming"
  /\ fb' = CloseContinues(f1, updates).fb
  /\ updates' = CloseContinues(f1, updates).updates
  /\ UNCHANGED <<registryVars, streamVars, lineVars, parserVars, treeVars, usageVars, gapVars,
                 blockVars, cardVars, envVars, reminderVars>>

\* the final call settles and the handler resolves
FinalSettled ==
  /\ fb.pc = "final"
  /\ fb' = [fb EXCEPT !.pc = "done"]
  /\ UNCHANGED updates
  /\ UNCHANGED <<registryVars, streamVars, lineVars, parserVars, treeVars, usageVars, gapVars,
                 blockVars, cardVars, envVars, reminderVars>>

\* the locals after spawn: lastUpdateTime = 0, lastUpdatePromise resolved, and a
\* clock that is past the first interval
FallbackInit ==
  /\ RegistryInit({ChannelThread}, {Configured}) /\ StreamOff /\ LineOff /\ ParserOff /\ TreeOff
  /\ GapOff /\ BlockOff /\ EnvOff /\ ReminderOff
  /\ fb = [pc |-> "streaming", now |-> UPDATE_INTERVAL_MS, ticks |-> 0, lastUpdateTime |-> 0,
           done |-> FALSE, text |-> 0, stopBtn |-> "none", waiting |-> <<>>, inflight |-> {},
           last |-> 0, nextId |-> 1]
  /\ updates = <<>>

FallbackNext ==
  \/ Tick
  \/ FallbackDelta
  \/ \E ok \in BOOLEAN : CarrierSettled(ok)
  \/ \E id \in 1..MaxDeltas : SnapshotSettled(id)
  \/ FallbackClose
  \/ FinalSettled

FallbackSpec == FallbackInit /\ [][FallbackNext]_vars

\* C36: on the chat.update path every throttled update is made at least
\* UPDATE_INTERVAL_MS after the one before it, carries the text accumulated when
\* it is made, and is made before the close event.
ThrottledUpdatesSpaced ==
  \A j \in DOMAIN updates :
    updates[j].kind = "snapshot" =>
      /\ ~updates[j].afterExit
      /\ \A i \in 1..(j - 1) :
           updates[i].kind = "snapshot" => updates[j].at - updates[i].at >= UPDATE_INTERVAL_MS

\* C38: when the close handler makes the final chat.update on the carrier, every
\* throttled chat.update made before it has settled.
FinalUpdateIsLastWrite ==
  \A j \in DOMAIN updates :
    updates[j].kind = "final" =>
      /\ updates[j].pending = {}
      /\ j = Len(updates)

\* =============================================================== ReminderSpec
\* The reminders table and the runs of pollReminders, which setInterval starts
\* every 60 s whether or not an earlier run has returned.  A row's `due` is
\* next_trigger_at <= datetime('now'); `fired` counts the messages posted for the
\* row since its trigger time was last reached.
ReminderRows ==
  {[active |-> TRUE, due |-> FALSE, one_time |-> o, cronOk |-> c, fired |-> 0, occurrences |-> 0] :
     o \in BOOLEAN, c \in BOOLEAN}

\* SELECT * FROM reminders WHERE active = 1 AND next_trigger_at <= datetime('now')
getDueReminders(rs) ==
  SelectSeq([r \in 1..MaxReminders |-> r], LAMBDA r : rs[r].active /\ rs[r].due)

\* UPDATE reminders SET next_trigger_at = ? WHERE id = ?  (the cron's next time)
updateNextTrigger(row) == [row EXCEPT !.due = FALSE]

\* UPDATE reminders SET active = 0 WHERE id = ?
deactivateReminder(row) == [row EXCEPT !.active = FALSE]

\* the for loop goes to the next due reminder and posts its message, or returns
NextReminder(run) ==
  IF Tail(run.due) = <<>> THEN [due |-> <<>>, pc |-> "returned"]
  ELSE [due |-> Tail(run.due), pc |-> "posting"]

\* the clock reaches a row's next_trigger_at
TriggerTimeReached(r) ==
  /\ reminders[r].active /\ ~reminders[r].due
  /\ reminders[r].occurrences < MaxOccurrences
  /\ reminders' = [reminders EXCEPT ![r].due = TRUE, ![r].fired = 0, ![r].occurrences = @ + 1]
  /\ UNCHANGED poller
  /\ UNCHANGED <<registryVars, streamVars, lineVars, parserVars, treeVars, usageVars, gapVars,
                 blockVars, cardVars, envVars, fallbackVars>>

\* pollReminders is called: with due reminders it starts posting the first one's
\* message (with none it returns at once)
pollReminders ==
  /\ Len(poller) < MaxPolls
  /\ getDueReminders(reminders) # <<>>
  /\ poller' = Append(poller, [due |-> getDueReminders(reminders), pc |-> "posting"])
  /\ UNCHANGED reminders
  /\ UNCHANGED <<registryVars, streamVars, lineVars, parserVars, treeVars, usageVars, gapVars,
                 blockVars, cardVars, envVars, fallbackVars>>

\* chat.postMessage of the reminder settles: the turn is started by processMessage,
\* or the rejection is logged and the loop goes on
ReminderPosted(i, ok) ==
  /\ i \in DOMAIN poller /\ poller[i].pc = "posting"
  /\ reminders' = IF ok THEN [reminders EXCEPT ![Head(poller[i].due)].fired = @ + 1]
                  ELSE reminders
  /\ poller' = [poller EXCEPT ![i] = IF ok THEN [@ EXCEPT !.pc = "turn"] ELSE NextReminder(@)]
  /\ UNCHANGED <<registryVars, streamVars, lineVars, parserVars, treeVars, usageVars, gapVars,
                 blockVars, cardVars, envVars, fallbackVars>>

\* processMessage returns: the row is deactivated (one-time, or its cron expression
\* does not parse) or its next trigger time is stored; the loop goes on
ReminderTurnEnds(i) ==
  /\ i \in DOMAIN poller /\ poller[i].pc = "turn"
  /\ reminders' = [reminders EXCEPT ![Head(poller[i].due)] =
                     IF @.one_time \/ ~@.cronOk THEN deactivateReminder(@)
                     ELSE updateNextTrigger(@)]
  /\ poller' = [poller EXCEPT ![i] = NextReminder(@)]
  /\ UNCHANGED <<registryVars, streamVars, lineVars, parserVars, treeVars, usageVars, gapVars,
                 blockVars, cardVars, envVars, fallbackVars>>

ReminderInit ==
  /\ RegistryInit({ChannelThread}, {Configured}) /\ StreamOff /\ LineOff /\ ParserOff /\ TreeOff
  /\ GapOff /\ BlockOff /\ EnvOff /\ FallbackOff
  /\ reminders \in [1..MaxReminders -> ReminderRows]
  /\ poller = <<>>

ReminderNext ==
  \/ \E r \in 1..MaxReminders : TriggerTimeReached(r)
  \/ pollReminders
  \/ \E i \in 1..MaxPolls, ok \in BOOLEAN : ReminderPosted(i, ok)
  \/ \E i \in 1..MaxPolls : ReminderTurnEnds(i)

ReminderSpec == ReminderInit /\ [][ReminderNext]_vars

\* C40: a reminder is posted at most once for each time its trigger time is
\* reached.
FiredOncePerOccurrence ==
  \A r \in DOMAIN reminders : reminders[r].fired <= 1
====
